---- MODULE Spec2Model ----
(***************************************************************************)
(* opencode-limits: the usage cache (cache.py), its freshness predicates,  *)
(* and the command-line run that consults it (cli.py).                     *)
(*                                                                         *)
(* Instants are whole seconds on one UTC time line (a datetime with a      *)
(* time zone); a duration is a difference of instants.  An optional value  *)
(* is None (the empty tuple) or the one-element tuple <<v>>.               *)
(***************************************************************************)
EXTENDS Integers, Sequences, FiniteSets, TLC

VARIABLES
    probe,      \* the arguments and results of a direct call of a predicate
    loadp,      \* the file and the result of a direct call of load_cache
    call,       \* a direct call of another function: op, arguments, result
    env,        \* one invocation: mode, cache settings, terminal, credentials
    cache_file, \* the cache file on disk
    clock,      \* datetime.now(timezone.utc)
    pc,         \* where the main thread of the invocation is
    settings,   \* _run_tmux: the loaded CacheSettings
    tmux_record,\* _run_tmux: record
    tasks,      \* the two futures of _fetch_usage
    future_map, \* _fetch_usage: the futures not yet collected, in order
    fetch,      \* _fetch_usage: codex_windows, copilot_window, failures
    out,        \* what the invocation has written to the console
    exit,       \* the exit status of the process, once it has ended
    log         \* the calls made so far, in order

runvars == <<env, cache_file, clock, pc, settings, tmux_record, tasks,
             future_map, fetch, out, exit, log>>
vars == <<probe, loadp, call, runvars>>

None == <<>>
Some(v) == <<v>>

----------------------------------------------------------------------------
(* Program constants, cache.py *)

DEFAULT_CACHE_TTL_SECONDS == 180
STALE_FALLBACK_SECONDS == 86400
FORMAT_VERSION == 1

(* Bounds of the model *)

\* instants are probed up to Slack seconds on either side of every threshold
Slack == 1
\* the most codex windows a cache file or a fetch result holds
MaxCodex == 2

----------------------------------------------------------------------------
(* Credentials and their fingerprint *)

Tokens == {
    [openai |-> "tokA", github_copilot |-> "ghA", chatgpt_account_id |-> "acct"],
    [openai |-> "tokB", github_copilot |-> "ghA", chatgpt_account_id |-> "acct"] }

\* sha256 over the three secrets: a digest that differs whenever a secret does
build_auth_fingerprint(tokens) ==
    IF tokens.openai = "tokA" THEN "fpA" ELSE "fpB"

Fingerprints == { build_auth_fingerprint(t) : t \in Tokens }

----------------------------------------------------------------------------
(* CachedWindow, CacheRecord *)

CachedWindow(used_percent, reset_at) ==
    [used_percent |-> used_percent, reset_at |-> reset_at]

\* codex is the dict label -> CachedWindow, kept in insertion order as a
\* sequence of <<label, window>> pairs with distinct labels
CacheRecord(fetched_at, codex, copilot, auth_fingerprint, format_version) ==
    [fetched_at |-> fetched_at, codex |-> codex, copilot |-> copilot,
     auth_fingerprint |-> auth_fingerprint, format_version |-> format_version]

CodexValues(record) == { record.codex[i][2] : i \in DOMAIN record.codex }

\* the boundary instant itself taken as not yet passed
has_reset_passed_strict(record, now) ==
    \/ \E window \in CodexValues(record) :
          window.reset_at # None /\ window.reset_at[1] < now
    \/ /\ record.copilot # None
       /\ record.copilot[1].reset_at # None
       /\ record.copilot[1].reset_at[1] < now

_has_reset_passed(record, now) ==
    \/ \E window \in CodexValues(record) :
          window.reset_at # None /\ window.reset_at[1] <= now
    \/ /\ record.copilot # None
       /\ record.copilot[1].reset_at # None
       /\ record.copilot[1].reset_at[1] <= now

\* an age equal to the ttl taken as expired
is_fresh_age_exclusive(record, ttl_seconds, auth_fingerprint, now) ==
    /\ record.format_version = FORMAT_VERSION
    /\ record.auth_fingerprint = auth_fingerprint
    /\ now - record.fetched_at < ttl_seconds
    /\ ~ _has_reset_passed(record, now)

is_fresh(record, ttl_seconds, auth_fingerprint, now) ==
    IF record.format_version # FORMAT_VERSION THEN FALSE
    ELSE IF record.auth_fingerprint # auth_fingerprint THEN FALSE
    ELSE LET age_seconds == now - record.fetched_at
         IN  IF age_seconds > ttl_seconds THEN FALSE
             ELSE IF _has_reset_passed(record, now) THEN FALSE
             ELSE TRUE

\* the fallback without the check of the credentials
is_stale_allowed_any_identity(record, max_age_seconds, auth_fingerprint, now) ==
    /\ record.format_version = FORMAT_VERSION
    /\ now - record.fetched_at <= max_age_seconds
    /\ ~ _has_reset_passed(record, now)

is_stale_allowed(record, max_age_seconds, auth_fingerprint, now) ==
    IF record.format_version # FORMAT_VERSION THEN FALSE
    ELSE IF record.auth_fingerprint # auth_fingerprint THEN FALSE
    ELSE LET age_seconds == now - record.fetched_at
         IN  IF age_seconds > max_age_seconds THEN FALSE
             ELSE IF _has_reset_passed(record, now) THEN FALSE
             ELSE TRUE

----------------------------------------------------------------------------
(* What a call ends with: a returned value, or an exception that propagates *)

Ret(v) == [exc |-> "", v |-> v]
Raise(e) == [exc |-> e, v |-> None]
Raised(r) == r.exc # ""

----------------------------------------------------------------------------
(* Decoded JSON values, as json.loads hands them to load_cache.            *)
(*   absent : the key is not in the object (dict.get gives None)           *)
(*   null   : JSON null                                                    *)
(*   num    : a JSON number n                                              *)
(*   numstr : a JSON string spelling the number n, such as "50"            *)
(*   iso    : a JSON string holding the ISO-8601 instant at, with offset   *)
(*   text   : any other JSON string s (the empty string included)          *)
(*   list   : a JSON array                                                 *)
(*   dict   : a JSON object, its members in items                          *)

JAbsent == [t |-> "absent"]
JNull == [t |-> "null"]
JNum(n) == [t |-> "num", n |-> n]
JNumStr(n) == [t |-> "numstr", n |-> n]
JIso(at) == [t |-> "iso", at |-> at]
JText(s) == [t |-> "text", s |-> s]
JList == [t |-> "list"]
\* bool : JSON true or false
JBool(b) == [t |-> "bool", b |-> b]

\* dict.get(key): None for a missing key and for null alike
IsPyNone(j) == j.t \in {"absent", "null"}

\* models.parse_timestamp: None, the instant, or the ValueError of
\* datetime.fromisoformat on a string that is no ISO-8601 text.  A number is
\* epoch seconds (one above 10^12 would be milliseconds: the numbers here
\* stay below it, as 32-bit integers)
parse_timestamp(value) ==
    IF IsPyNone(value) \/ (value.t = "text" /\ value.s = "") THEN Ret(None)
    ELSE IF value.t = "num" THEN Ret(Some(value.n))
    ELSE IF value.t = "iso" THEN Ret(Some(value.at))
    ELSE Raise("ValueError")

\* float(x) guarded by except (TypeError, ValueError): the number or None
FloatOrNone(j) ==
    IF j.t \in {"num", "numstr"} THEN Some(j.n) ELSE None

\* int(x) guarded by except (TypeError, ValueError): the number or None
IntOrNone(j) ==
    IF j.t \in {"num", "numstr"} THEN Some(j.n) ELSE None

\* bool(x) of a decoded value: None, "", 0, [] and {} are falsy
Falsy(j) ==
    \/ IsPyNone(j)
    \/ j.t = "text" /\ j.s = ""
    \/ j.t = "num" /\ j.n = 0
    \/ j.t = "list" /\ ("items" \in DOMAIN j => j.items = <<>>)
    \/ j.t = "dict" /\ j.items = <<>>
    \/ j.t = "bool" /\ ~ j.b

\* str(x) of a decoded string or number
PyStr(j) == IF j.t = "text" THEN j.s ELSE ToString(j.n)

\* a cached window as an object {"used_percent": .., "reset_at": ..}
JWindow(used_percent, reset_at) ==
    [t |-> "dict", used_percent |-> used_percent, reset_at |-> reset_at]

\* a reading of the window that forgets its reset_at
parse_cached_window_without_reset(payload) ==
    IF payload.t # "dict" \/ "used_percent" \notin DOMAIN payload
    THEN Ret(None)
    ELSE LET percent == FloatOrNone(payload.used_percent)
         IN  IF percent = None THEN Ret(None)
             ELSE Ret(Some(CachedWindow(percent[1], None)))

_parse_cached_window(payload) ==
    IF payload.t # "dict" \/ "used_percent" \notin DOMAIN payload
    THEN Ret(None)
    ELSE IF IsPyNone(payload.used_percent) THEN Ret(None)
    ELSE LET percent == FloatOrNone(payload.used_percent)
         IN  IF percent = None THEN Ret(None)
             ELSE LET reset_at == parse_timestamp(payload.reset_at)
                  IN  IF Raised(reset_at) THEN reset_at
                      ELSE Ret(Some(CachedWindow(percent[1], reset_at.v)))

\* The cache file as path.read_text() and json.loads find it
\*   missing : no such file                (FileNotFoundError)
\*   oserror : present but unreadable      (OSError)
\*   badutf8 : bytes that are no text      (UnicodeDecodeError)
\*   notjson : text that is no JSON        (json.JSONDecodeError)
\*   json    : text that decodes to payload
FMissing == [k |-> "missing"]
FOsError == [k |-> "oserror"]
FBadUtf8 == [k |-> "badutf8"]
FNotJson == [k |-> "notjson"]
FJson(payload) == [k |-> "json", payload |-> payload]

JPayload(fetched_at, codex, copilot, auth_fingerprint, format_version) ==
    [t |-> "dict", fetched_at |-> fetched_at, codex |-> codex,
     copilot |-> copilot, auth_fingerprint |-> auth_fingerprint,
     format_version |-> format_version]

\* the codex member: a JSON object of label -> window, in file order
JCodex(items) == [t |-> "dict", items |-> items]

\* the loop of load_cache over codex_payload.items()
ParsedCodex(codex_payload) ==
    IF codex_payload.t # "dict" \/ "items" \notin DOMAIN codex_payload
    THEN Ret(<<>>)
    ELSE LET items == codex_payload.items
             parsed == [i \in DOMAIN items |-> _parse_cached_window(items[i][2])]
             kept == SelectSeq([i \in DOMAIN items |-> <<items[i][1], parsed[i]>>],
                               LAMBDA e : e[2].v # None)
         IN  IF \E i \in DOMAIN items : Raised(parsed[i])
             THEN Raise("ValueError")
             ELSE Ret([i \in DOMAIN kept |-> <<kept[i][1], kept[i][2].v[1]>>])

load_cache(file) ==
    IF file.k = "missing" THEN Ret(None)
    ELSE IF file.k \in {"oserror", "notjson"} THEN Ret(None)
    ELSE IF file.k = "badutf8" THEN Raise("UnicodeDecodeError")
    ELSE LET payload == file.payload IN
    IF payload.t # "dict" THEN Ret(None)
    ELSE LET fetched_at == parse_timestamp(payload.fetched_at)
             auth_fingerprint == payload.auth_fingerprint
             format_version == payload.format_version
         IN
    IF Raised(fetched_at) THEN fetched_at
    ELSE IF fetched_at.v = None \/ Falsy(auth_fingerprint)
            \/ IsPyNone(format_version)
    THEN Ret(None)
    ELSE LET format_version_int == IntOrNone(format_version) IN
    IF format_version_int = None THEN Ret(None)
    ELSE LET codex == ParsedCodex(payload.codex)
             copilot == _parse_cached_window(payload.copilot)
         IN
    IF Raised(codex) THEN codex
    ELSE IF Raised(copilot) THEN copilot
    ELSE Ret(Some(CacheRecord(fetched_at.v[1], codex.v, copilot.v,
                              PyStr(auth_fingerprint), format_version_int[1])))

----------------------------------------------------------------------------
(* The codex labels of the model, in the order of their code points *)

CodexLabels == <<"5HR", "Weekly", "burst window">>

----------------------------------------------------------------------------
(* UsageWindow (models.py).  used_percent is held in tenths of a percent,  *)
(* so 604 stands for 60.4; used and limit are optional counts.             *)

UsageWindow(label, used_percent, reset_at) ==
    [label |-> label, used_percent |-> used_percent, reset_at |-> reset_at,
     used |-> None, limit |-> None]

\* label.strip().lower() on the labels that occur
StripLower(label) ==
    CASE label \in {"5HR", "5hr", " 5hr "} -> "5hr"
      [] label \in {"Weekly", "weekly"} -> "weekly"
      [] label = "Copilot" -> "copilot"
      [] label = "Requests" -> "requests"
      [] OTHER -> label

_normalize_codex_label(label) ==
    LET normalized == StripLower(label)
    IN  IF normalized = "5hr" THEN Some("5HR")
        ELSE IF normalized = "weekly" THEN Some("Weekly")
        ELSE None

\* a cached window that keeps the usage only within 0..100
to_cached_window_clamped(window) ==
    CachedWindow(IF window.used_percent > 1000 THEN 1000
                 ELSE IF window.used_percent < 0 THEN 0
                 ELSE window.used_percent,
                 window.reset_at)

_to_cached_window(window) ==
    CachedWindow(window.used_percent, window.reset_at)

\* codex[label] = window on an insertion-ordered dict
DictSet(dict, label, window) ==
    IF \E i \in DOMAIN dict : dict[i][1] = label
    THEN [i \in DOMAIN dict |->
            IF dict[i][1] = label THEN <<label, window>> ELSE dict[i]]
    ELSE Append(dict, <<label, window>>)

RECURSIVE BuildCodex(_, _)
BuildCodex(codex_windows, codex) ==
    IF codex_windows = <<>> THEN codex
    ELSE LET window == Head(codex_windows)
             label == _normalize_codex_label(window.label)
         IN  BuildCodex(Tail(codex_windows),
                        IF label = None THEN codex
                        ELSE DictSet(codex, label[1], _to_cached_window(window)))

\* a record that is not stamped with the time of the fetch
build_cache_record_undated(codex_windows, copilot_window, tokens, fetched_at) ==
    CacheRecord(0,
                BuildCodex(codex_windows, <<>>),
                IF copilot_window # None
                THEN Some(_to_cached_window(copilot_window[1])) ELSE None,
                build_auth_fingerprint(tokens),
                FORMAT_VERSION)

build_cache_record(codex_windows, copilot_window, tokens, fetched_at) ==
    CacheRecord(fetched_at,
                BuildCodex(codex_windows, <<>>),
                IF copilot_window # None
                THEN Some(_to_cached_window(copilot_window[1])) ELSE None,
                build_auth_fingerprint(tokens),
                FORMAT_VERSION)

_cached_windows(record) ==
    [codex_windows |->
        [i \in DOMAIN record.codex |->
            UsageWindow(record.codex[i][1], record.codex[i][2].used_percent,
                        record.codex[i][2].reset_at)],
     copilot_window |->
        IF record.copilot # None
        THEN Some(UsageWindow("Copilot", record.copilot[1].used_percent,
                              record.copilot[1].reset_at))
        ELSE None]

----------------------------------------------------------------------------
(* The tmux status line (tmux.py) *)

Min(a, b) == IF a < b THEN a ELSE b
Max(a, b) == IF a > b THEN a ELSE b

_clamp_percent(percent) == Max(0, Min(1000, percent))

\* int(round(x)) of x tenths: to the nearest whole, a half to the even one
RoundPercent(tenths) ==
    LET q == tenths \div 10
        r == tenths % 10
    IN  IF r < 5 THEN q
        ELSE IF r > 5 THEN q + 1
        ELSE IF q % 2 = 0 THEN q ELSE q + 1

usage_style(percent) ==
    IF percent >= 990 THEN "red"
    ELSE IF percent > 800 THEN "yellow"
    ELSE "cyan"

_find_window(windows, label) ==
    LET target == StripLower(label)
        hits == { i \in DOMAIN windows : StripLower(windows[i].label) = target }
    IN  IF hits = {} THEN None
        ELSE Some(windows[CHOOSE i \in hits : \A j \in hits : i <= j])

\* the icon, wrapped in the colour of the window's usage when there is one
_styled_icon(icon, window) ==
    IF window = None THEN [text |-> icon, fg |-> ""]
    ELSE [text |-> icon, fg |-> usage_style(_clamp_percent(window[1].used_percent))]

\* "--%" without a window, else the rounded clamped percentage in its colour
_styled_percent(window) ==
    IF window = None THEN [text |-> "--%", fg |-> ""]
    ELSE LET percent == _clamp_percent(window[1].used_percent)
         IN  [text |-> ToString(RoundPercent(percent)) \o "%",
              fg |-> usage_style(percent)]

\* the status string as its five styled parts; <<>> is the empty string
render_tmux_status(codex_windows, copilot_window) ==
    IF codex_windows = <<>> /\ copilot_window = None THEN <<>>
    ELSE LET five_hour == _find_window(codex_windows, "5HR")
             weekly == _find_window(codex_windows, "Weekly")
         IN  << _styled_icon("codex", five_hour),
                _styled_percent(five_hour),
                _styled_percent(weekly),
                _styled_icon("copilot", copilot_window),
                _styled_percent(copilot_window) >>

\* render.render_sections, lines 30 and 33: the percentage of a window in
\* the plain listing, f"{percent:>3.0f}%" of the clamped value
section_percent_text(window) ==
    LET percent == Max(0, Min(1000, window.used_percent))
    IN  ToString(RoundPercent(percent)) \o "%"

----------------------------------------------------------------------------
(* save_cache: the record as the JSON text json.dumps(sort_keys=True) writes *)

_serialize_cached_window(window) ==
    IF window = None THEN JNull
    ELSE JWindow(JNum(window[1].used_percent),
                 IF window[1].reset_at # None
                 THEN JIso(window[1].reset_at[1]) ELSE JNull)

\* sort_keys=True: the members of codex in the order of their keys
LabelRank(label) == CHOOSE i \in DOMAIN CodexLabels : CodexLabels[i] = label
RECURSIVE SortByLabel(_)
SortByLabel(items) ==
    IF items = <<>> THEN <<>>
    ELSE LET m == CHOOSE i \in DOMAIN items :
                    \A j \in DOMAIN items :
                        LabelRank(items[i][1]) <= LabelRank(items[j][1])
         IN  <<items[m]>> \o
             SortByLabel(SubSeq(items, 1, m - 1) \o
                         SubSeq(items, m + 1, Len(items)))

Serialize(record) ==
    FJson(JPayload(
        JIso(record.fetched_at),
        JCodex(SortByLabel([i \in DOMAIN record.codex |->
                  <<record.codex[i][1],
                    _serialize_cached_window(Some(record.codex[i][2]))>>])),
        _serialize_cached_window(record.copilot),
        JText(record.auth_fingerprint),
        JNum(record.format_version)))

----------------------------------------------------------------------------
(* The text of the cache file.  json.dumps writes it and json.loads reads  *)
(* it; it is held as the sequence of its JSON tokens (white space left     *)
(* out).  A string token carries the decoded string, a number token the    *)
(* number; "cut" is a token broken off before its end (a string without    *)
(* its closing quote, a literal without its last letters).                 *)

TBegin == [c |-> "{"]
TEnd == [c |-> "}"]
TColon == [c |-> ":"]
TComma == [c |-> ","]
TNull == [c |-> "null"]
TNum(n) == [c |-> "num", n |-> n]
TStr(j) == [c |-> "str", j |-> j]
TCut == [c |-> "cut"]

\* a JSON object with its members in order (JCodex is one)
JDict(items) == [t |-> "dict", items |-> items]

\* the payload dict save_cache builds, members in insertion order
SavePayload(record) ==
    JDict(<< <<"fetched_at", JIso(record.fetched_at)>>,
             <<"codex",
               JDict([i \in DOMAIN record.codex |->
                  LET w == record.codex[i][2]
                  IN  <<record.codex[i][1],
                        JDict(<< <<"used_percent", JNum(w.used_percent)>>,
                                 <<"reset_at",
                                   IF w.reset_at # None
                                   THEN JIso(w.reset_at[1]) ELSE JNull>> >>)>>])>>,
             <<"copilot",
               IF record.copilot = None THEN JNull
               ELSE JDict(<< <<"used_percent",
                                JNum(record.copilot[1].used_percent)>>,
                             <<"reset_at",
                               IF record.copilot[1].reset_at # None
                               THEN JIso(record.copilot[1].reset_at[1])
                               ELSE JNull>> >>)>>,
             <<"auth_fingerprint", JText(record.auth_fingerprint)>>,
             <<"format_version", JNum(record.format_version)>> >>)

\* the keys that occur, in the order sort_keys=True puts them (code points)
KeyOrder == <<"5HR", "Weekly", "auth_fingerprint", "burst window", "codex",
              "copilot", "fetched_at", "format_version", "reset_at",
              "used_percent">>
KeyRank(key) == CHOOSE i \in DOMAIN KeyOrder : KeyOrder[i] = key

RECURSIVE SortItems(_)
SortItems(items) ==
    IF items = <<>> THEN <<>>
    ELSE LET m == CHOOSE i \in DOMAIN items :
                    \A j \in DOMAIN items :
                        KeyRank(items[i][1]) <= KeyRank(items[j][1])
         IN  <<items[m]>> \o
             SortItems(SubSeq(items, 1, m - 1) \o
                       SubSeq(items, m + 1, Len(items)))

\* json.dumps(value, sort_keys=True) as tokens
RECURSIVE json_dumps(_)
RECURSIVE DumpMembers(_)
DumpMembers(items) ==
    IF items = <<>> THEN <<>>
    ELSE <<TStr(JText(items[1][1])), TColon>> \o json_dumps(items[1][2])
         \o (IF Len(items) > 1
             THEN <<TComma>> \o DumpMembers(Tail(items)) ELSE <<>>)

json_dumps(j) ==
    IF j.t = "dict"
    THEN <<TBegin>> \o DumpMembers(SortItems(j.items)) \o <<TEnd>>
    ELSE IF j.t = "null" THEN <<TNull>>
    ELSE IF j.t = "num" THEN <<TNum(j.n)>>
    ELSE <<TStr(j)>>

\* the JSON decoder: one value starting at token i, or failure
ParseFail == [ok |-> FALSE, v |-> JNull, next |-> 0]
ParseOk(v, next) == [ok |-> TRUE, v |-> v, next |-> next]

RECURSIVE ParseValue(_, _, _)
RECURSIVE ParseMembers(_, _, _, _)
\* at i a key is expected; lenient takes the end of the text for the "}"
ParseMembers(text, i, items, lenient) ==
    IF i > Len(text) THEN
        IF lenient THEN ParseOk(JDict(items), i) ELSE ParseFail
    ELSE IF i + 1 > Len(text) \/ text[i].c # "str" \/ text[i + 1].c # ":"
    THEN ParseFail
    ELSE LET r == ParseValue(text, i + 2, lenient)
             key == IF text[i].j.t = "text" THEN text[i].j.s ELSE "?"
         IN  IF ~ r.ok THEN ParseFail
             ELSE LET more == Append(items, <<key, r.v>>)
                  IN  IF r.next > Len(text)
                      THEN IF lenient THEN ParseOk(JDict(more), r.next)
                           ELSE ParseFail
                      ELSE IF text[r.next].c = "}"
                      THEN ParseOk(JDict(more), r.next + 1)
                      ELSE IF text[r.next].c = ","
                      THEN ParseMembers(text, r.next + 1, more, lenient)
                      ELSE ParseFail

ParseValue(text, i, lenient) ==
    IF i > Len(text) THEN ParseFail
    ELSE LET tok == text[i]
         IN  IF tok.c = "null" THEN ParseOk(JNull, i + 1)
             ELSE IF tok.c = "num" THEN ParseOk(JNum(tok.n), i + 1)
             ELSE IF tok.c = "str" THEN ParseOk(tok.j, i + 1)
             ELSE IF tok.c = "{"
             THEN IF i + 1 <= Len(text) /\ text[i + 1].c = "}"
                  THEN ParseOk(JDict(<<>>), i + 2)
                  ELSE ParseMembers(text, i + 1, <<>>, lenient)
             ELSE ParseFail

\* dict.get(key) on a decoded object: the last member of that name
Get(obj, key) ==
    LET hits == { i \in DOMAIN obj.items : obj.items[i][1] = key }
    IN  IF hits = {} THEN JAbsent
        ELSE obj.items[CHOOSE i \in hits : \A j \in hits : j <= i][2]

\* the decoded object as load_cache reads its members
AsWindow(v) ==
    IF v.t = "dict"
    THEN JWindow(Get(v, "used_percent"), Get(v, "reset_at")) ELSE v
AsCodex(v) ==
    IF v.t = "dict"
    THEN JCodex([i \in DOMAIN v.items |->
                    <<v.items[i][1], AsWindow(v.items[i][2])>>])
    ELSE v
AsPayload(v) ==
    IF v.t = "dict"
    THEN JPayload(Get(v, "fetched_at"), AsCodex(Get(v, "codex")),
                  AsWindow(Get(v, "copilot")), Get(v, "auth_fingerprint"),
                  Get(v, "format_version"))
    ELSE v

\* a decoder that takes an object left open at the end of the text as closed
json_loads_lenient(text) ==
    LET r == ParseValue(text, 1, TRUE)
    IN  IF r.ok /\ r.next >= Len(text) + 1 THEN FJson(AsPayload(r.v))
        ELSE FNotJson

\* json.loads(path.read_text()): the decoded payload, or JSONDecodeError
json_loads(text) ==
    LET r == ParseValue(text, 1, FALSE)
    IN  IF r.ok /\ r.next = Len(text) + 1 THEN FJson(AsPayload(r.v))
        ELSE FNotJson

\* a file holding text
FText(text) == [k |-> "text", text |-> text]

\* what load_cache finds in a file: a text file is decoded first
Decoded(file) == IF file.k = "text" THEN json_loads(file.text) ELSE file

\* the text save_cache writes for a record
SaveText(record) == json_dumps(SavePayload(record))

\* the text broken off after its first k tokens; with partial, the next
\* token is begun: a number keeps its leading digits, a string or a literal
\* is cut, a one-character token is there or not
CutText(text, k, partial) ==
    LET head == SubSeq(text, 1, k)
        tok == text[k + 1]
    IN  IF ~ partial \/ tok.c \in {"{", "}", ":", ","} THEN head
        ELSE IF tok.c = "num" /\ tok.n >= 10
        THEN Append(head, TNum(tok.n \div 10))
        ELSE IF tok.c = "num" THEN head
        ELSE Append(head, TCut)

----------------------------------------------------------------------------
(* The Codex normalizer (providers/codex.py).  A usage count is a whole    *)
(* number; a percentage is held in tenths, so used 30 of limit 50 is 600.  *)

\* a JSON array with its items
JArray(items) == [t |-> "list", items |-> items]

\* a window with its optional counts
UsageWindowOf(label, used_percent, reset_at, used, limit) ==
    [label |-> label, used_percent |-> used_percent, reset_at |-> reset_at,
     used |-> used, limit |-> limit]

\* used / limit * 100.0, in tenths of a percent
PercentOf(used, limit) == (used * 1000) \div limit

\* key in entry
Has(obj, key) == \E i \in DOMAIN obj.items : obj.items[i][1] = key

\* entry.setdefault("window", key) on a copy of the entry
SetDefaultWindow(entry, key) ==
    IF Has(entry, "window") THEN entry
    ELSE JDict(Append(entry.items, <<"window", JText(key)>>))

_looks_like_entry(entry) ==
    \E key \in {"used_percent", "limit", "reset_at", "used"} : Has(entry, key)

\* the entries _iter_entries yields, in order
_iter_entries(entries) ==
    IF entries.t = "dict"
    THEN IF _looks_like_entry(entries) THEN <<entries>>
         ELSE LET dicts == SelectSeq(entries.items,
                                     LAMBDA kv : kv[2].t = "dict")
              IN  [i \in DOMAIN dicts |->
                     SetDefaultWindow(dicts[i][2], dicts[i][1])]
    ELSE SelectSeq(entries.items, LAMBDA e : e.t = "dict")

\* _build_label with an empty prefix, on the window names that occur: "_"
\* becomes a blank, the names of the five-hour window become "5HR",
\* "primary window" and "secondary window" are mapped, and " window" is
\* appended to what is neither "weekly", "5hr" nor already a window
WindowLabel(window_name) ==
    CASE window_name \in {"primary_window", "5h", "5_hour"} -> "5HR"
      [] window_name = "secondary_window" -> "Weekly"
      [] window_name = "weekly" -> "weekly"
      [] window_name = "code_review" -> "code review window"
      [] window_name = "burst_window" -> "burst window"
      [] OTHER -> window_name

_build_label(entry) ==
    LET window == Get(entry, "window")
        name == Get(entry, "name")
        window_name == IF ~ Falsy(window) THEN PyStr(window)
                       ELSE IF ~ Falsy(name) THEN PyStr(name)
                       ELSE "window"
    IN  WindowLabel(window_name)

\* codex._coerce_number: None for None and for what float() refuses
_coerce_number(value) ==
    IF IsPyNone(value) THEN None ELSE FloatOrNone(value)

\* float(used_percent) is not guarded: a text raises ValueError, a list or
\* an object TypeError
_coerce_used_percent(entry) ==
    LET used_percent == Get(entry, "used_percent")
    IN  IF ~ IsPyNone(used_percent)
        THEN IF FloatOrNone(used_percent) # None
             THEN Ret(FloatOrNone(used_percent)[1])
             ELSE IF used_percent.t \in {"list", "dict"}
             THEN Raise("TypeError") ELSE Raise("ValueError")
        ELSE LET used == _coerce_number(Get(entry, "used"))
                 limit == _coerce_number(Get(entry, "limit"))
             IN  IF used = None \/ limit = None THEN Ret(0)
                 ELSE IF limit[1] = 0 THEN Ret(0)
                 ELSE Ret(PercentOf(used[1], limit[1]))

\* the loop of _parse_windows over entries[i ..], parsed so far in parsed;
\* the first exception ends it
RECURSIVE ParseEntries(_, _)
ParseEntries(entries, parsed) ==
    IF entries = <<>> THEN Ret(parsed)
    ELSE LET entry == Head(entries)
             label == _build_label(entry)
             used_percent == _coerce_used_percent(entry)
             reset_at == parse_timestamp(Get(entry, "reset_at"))
         IN  IF Raised(used_percent) THEN Raise(used_percent.exc)
             ELSE IF Raised(reset_at) THEN Raise(reset_at.exc)
             ELSE ParseEntries(Tail(entries),
                     Append(parsed,
                            UsageWindowOf(label, used_percent.v, reset_at.v,
                                          _coerce_number(Get(entry, "used")),
                                          _coerce_number(Get(entry, "limit")))))

\* "for entry in entries" raises TypeError on what cannot be iterated; a
\* string is iterated and holds no entry
_parse_windows(entries) ==
    IF entries.t \in {"null", "num"} THEN Raise("TypeError")
    ELSE IF entries.t \notin {"dict", "list"} THEN Ret(<<>>)
    ELSE ParseEntries(_iter_entries(entries), <<>>)

\* payload.get("rate_limit", [])
parse_codex_usage(payload) ==
    _parse_windows(IF Has(payload, "rate_limit")
                   THEN Get(payload, "rate_limit") ELSE JArray(<<>>))

----------------------------------------------------------------------------
(* The Copilot normalizers (providers/copilot.py) *)

COPILOT_PRO_MONTHLY_LIMIT == 300

\* copilot._coerce_number: 0.0 for None and for what float() refuses
copilot_coerce_number(value) ==
    IF IsPyNone(value) \/ FloatOrNone(value) = None THEN 0
    ELSE FloatOrNone(value)[1]

\* payload.get(key) or {} : the object, or an empty one for a falsy value
GetObject(obj, key) ==
    IF Falsy(Get(obj, key)) THEN JDict(<<>>) ELSE Get(obj, key)

\* a reading of the quota that takes no account of the unlimited flag
parse_copilot_internal_limited(payload) ==
    LET premium == GetObject(GetObject(payload, "quota_snapshots"),
                             "premium_interactions")
        entitlement == copilot_coerce_number(Get(premium, "entitlement"))
        remaining == copilot_coerce_number(Get(premium, "remaining"))
        reset_at == parse_timestamp(
                        IF ~ Falsy(Get(payload, "quota_reset_date"))
                        THEN Get(payload, "quota_reset_date")
                        ELSE Get(payload, "quota_reset_date_utc"))
    IN  IF Raised(reset_at) THEN reset_at
        ELSE IF entitlement <= 0
        THEN Ret(UsageWindowOf("Requests", 0, reset_at.v, None, None))
        ELSE LET used == Max(entitlement - remaining, 0)
             IN  Ret(UsageWindowOf("Requests", PercentOf(used, entitlement),
                                   reset_at.v, Some(used), Some(entitlement)))

parse_copilot_internal(payload) ==
    LET snapshots == GetObject(payload, "quota_snapshots")
        premium == GetObject(snapshots, "premium_interactions")
        entitlement == copilot_coerce_number(Get(premium, "entitlement"))
        remaining == copilot_coerce_number(Get(premium, "remaining"))
        unlimited == ~ Falsy(Get(premium, "unlimited"))
        reset_at == parse_timestamp(
                        IF ~ Falsy(Get(payload, "quota_reset_date"))
                        THEN Get(payload, "quota_reset_date")
                        ELSE Get(payload, "quota_reset_date_utc"))
    IN  IF Raised(reset_at) THEN reset_at
        ELSE IF unlimited \/ entitlement <= 0
        THEN Ret(UsageWindowOf("Requests", 0, reset_at.v, None, None))
        ELSE LET used == Max(entitlement - remaining, 0)
                 used_percent == IF entitlement # 0
                                 THEN PercentOf(used, entitlement) ELSE 0
             IN  Ret(UsageWindowOf("Requests", used_percent, reset_at.v,
                                   Some(used), Some(entitlement)))

\* sum(...) over the items
RECURSIVE SumSeq(_)
SumSeq(numbers) ==
    IF numbers = <<>> THEN 0 ELSE Head(numbers) + SumSeq(Tail(numbers))

\* a count that takes the items of every product
parse_copilot_usage_any_product(payload) ==
    LET usage_items == IF Falsy(Get(payload, "usageItems")) THEN <<>>
                       ELSE Get(payload, "usageItems").items
    IN  IF usage_items # <<>>
        THEN SumSeq([i \in DOMAIN usage_items |->
                       copilot_coerce_number(
                           Get(usage_items[i], "grossQuantity"))])
        ELSE copilot_coerce_number(Get(payload, "grossQuantity"))

parse_copilot_usage(payload) ==
    LET usage_items == IF Falsy(Get(payload, "usageItems")) THEN <<>>
                       ELSE Get(payload, "usageItems").items
        counted == SelectSeq(usage_items,
                             LAMBDA item :
                                Get(item, "product") = JText("Copilot"))
    IN  IF usage_items # <<>>
        THEN SumSeq([i \in DOMAIN counted |->
                       copilot_coerce_number(Get(counted[i], "grossQuantity"))])
        ELSE copilot_coerce_number(Get(payload, "grossQuantity"))

\* a calendar date, and midnight UTC at the start of a day
Date(year, month, day) == [year |-> year, month |-> month, day |-> day]
UtcMidnight(year, month, day) ==
    [year |-> year, month |-> month, day |-> day, hour |-> 0, minute |-> 0,
     second |-> 0, tz |-> "UTC"]

_next_month_start(current) ==
    LET year == current.year + (IF current.month = 12 THEN 1 ELSE 0)
        month == IF current.month = 12 THEN 1 ELSE current.month + 1
    IN  UtcMidnight(year, month, 1)

build_copilot_window(used, today) ==
    LET reset_at == _next_month_start(today)
        used_percent == IF COPILOT_PRO_MONTHLY_LIMIT > 0
                        THEN PercentOf(used, COPILOT_PRO_MONTHLY_LIMIT)
                        ELSE 0
    IN  UsageWindowOf("monthly", used_percent, Some(reset_at), Some(used),
                      Some(COPILOT_PRO_MONTHLY_LIMIT))

----------------------------------------------------------------------------
(* Inputs of the direct calls *)

Range(f) == { f[i] : i \in DOMAIN f }
Around(n) == (n - Slack) .. (n + Slack)

\* ttl_seconds is any positive whole number (tmux._parse_int); the default,
\* the shortest, and one beyond the stale ceiling
TTLs == {1, DEFAULT_CACHE_TTL_SECONDS,
         STALE_FALLBACK_SECONDS + DEFAULT_CACHE_TTL_SECONDS}

MaxAges == TTLs \cup {STALE_FALLBACK_SECONDS}

\* ages now - fetched_at on both sides of every threshold; a negative age is
\* a record stamped later than the clock it is read under
Ages == UNION { Around(n) : n \in MaxAges \cup {0} }

Nows == {0, STALE_FALLBACK_SECONDS}

\* a window's reset_at: unknown, or an instant just before, at or after now
Resets(now) == {None} \cup { Some(now + d) : d \in {-1, 0, 1} }

\* the dicts label -> window over the first n labels
RECURSIVE CodexDicts(_, _)
CodexDicts(n, windows) ==
    IF n = 0 THEN {<<>>}
    ELSE { Append(c, <<CodexLabels[n], w>>) :
              c \in CodexDicts(n - 1, windows), w \in windows }

CodexUpTo(windows) ==
    UNION { CodexDicts(n, windows) : n \in 0 .. MaxCodex }

ProbeWindows(now) == { CachedWindow(500, r) : r \in Resets(now) }

ProbeRecords(now) ==
    { CacheRecord(now - age, codex, copilot, fp, ver) :
        age \in Ages,
        codex \in CodexUpTo(ProbeWindows(now)),
        copilot \in {None} \cup { Some(w) : w \in ProbeWindows(now) },
        fp \in Fingerprints,
        ver \in {FORMAT_VERSION, FORMAT_VERSION + 1} }

\* cache files: every shape of the three required members over a few window
\* members, and every shape of the window members under well-formed required
\* members
RawTimes == {JAbsent, JNull, JText(""), JText("yesterday"), JList,
             JIso(0), JNum(0)}
RawAuths == {JAbsent, JNull, JText(""), JText("fpA")}
RawVersions == {JAbsent, JNull, JNum(FORMAT_VERSION), JNumStr(FORMAT_VERSION),
                JNum(FORMAT_VERSION + 1), JText("v1"), JList}
RawPercents == {JAbsent, JNull, JNum(500), JNumStr(500), JText("n/a"), JList}
RawResets == {JAbsent, JNull, JIso(0), JText("soon")}
RawWindows == {JNull, JList} \cup
              { JWindow(p, r) : p \in RawPercents, r \in RawResets }
RawEntries == {JNull, JWindow(JNum(500), JNull), JWindow(JNum(500), JIso(0)),
               JWindow(JText("n/a"), JNull), JWindow(JNum(500), JText("soon"))}
RawCodexes == {JAbsent, JNull, JList} \cup
              { JCodex(c) : c \in CodexUpTo(RawEntries) }

LoadFiles ==
    {FMissing, FOsError, FBadUtf8, FNotJson, FJson(JList), FJson(JNull)}
    \cup { FJson(JPayload(f, c, w, a, v)) :
             f \in RawTimes, a \in RawAuths, v \in RawVersions,
             c \in {JAbsent, JCodex(<<<<"5HR", JWindow(JNum(500), JNull)>>>>)},
             w \in {JNull, JWindow(JNum(500), JIso(0))} }
    \cup { FJson(JPayload(JIso(0), c, w, JText("fpA"), JNum(FORMAT_VERSION))) :
             c \in RawCodexes, w \in RawWindows }

----------------------------------------------------------------------------
(* No invocation under way *)

Names == <<"Codex", "GitHub Copilot">>

NoTasks == [n \in Range(Names) |-> [st |-> "unsubmitted", res |-> Ret(None)]]
NoFetch == [codex_windows |-> <<>>, copilot_window |-> None,
            failures |-> <<>>, exc |-> ""]

RunIdle ==
    /\ env = [mode |-> "", disabled |-> FALSE, refresh |-> FALSE,
              ttl_seconds |-> DEFAULT_CACHE_TTL_SECONDS,
              is_terminal |-> FALSE, writable |-> FALSE,
              tokens |-> CHOOSE t \in Tokens : TRUE]
    /\ cache_file = FMissing
    /\ clock = 0
    /\ pc = "idle"
    /\ settings = None
    /\ tmux_record = None
    /\ tasks = NoTasks
    /\ future_map = <<>>
    /\ fetch = NoFetch
    /\ out = <<>>
    /\ exit = None
    /\ log = <<>>

----------------------------------------------------------------------------
(* Direct calls of the freshness predicates and of load_cache *)

ProbeIdle == [op |-> "", record |-> None, ttl |-> 0, fp |-> "", now |-> 0,
              res |-> None]
LoadIdle == [file |-> FMissing, res |-> None]
CallIdle == [op |-> "", arg |-> None, res |-> None]

FreshInit ==
    /\ \E now \in Nows, ttl \in MaxAges, fp \in Fingerprints :
         \E record \in ProbeRecords(now) :
            probe = [op |-> "", record |-> Some(record), ttl |-> ttl,
                     fp |-> fp, now |-> now, res |-> None]
    /\ loadp = LoadIdle
    /\ call = CallIdle
    /\ RunIdle

CallIsFresh ==
    /\ probe.record # None /\ probe.res = None
    /\ probe' = [probe EXCEPT !.op = "is_fresh",
                   !.res = Some(is_fresh(probe.record[1], probe.ttl,
                                         probe.fp, probe.now))]
    /\ UNCHANGED <<loadp, call, runvars>>

CallIsStaleAllowed ==
    /\ probe.record # None /\ probe.res = None
    /\ probe' = [probe EXCEPT !.op = "is_stale_allowed",
                   !.res = Some(is_stale_allowed(probe.record[1], probe.ttl,
                                                 probe.fp, probe.now))]
    /\ UNCHANGED <<loadp, call, runvars>>

FreshNext == CallIsFresh \/ CallIsStaleAllowed

SpecFresh == FreshInit /\ [][FreshNext]_vars

LoadInit ==
    /\ probe = ProbeIdle
    /\ \E f \in LoadFiles : loadp = [file |-> f, res |-> None]
    /\ call = CallIdle
    /\ RunIdle

CallLoadCache ==
    /\ loadp.res = None
    /\ loadp' = [loadp EXCEPT !.res = Some(load_cache(loadp.file))]
    /\ UNCHANGED <<probe, call, runvars>>

LoadNext == CallLoadCache

SpecLoad == LoadInit /\ [][LoadNext]_vars

----------------------------------------------------------------------------
(* save_cache step by step, the process free to die while it writes, and   *)
(* load_cache on what is then on disk                                      *)

\* the records saved: both orders of insertion of the codex windows, usage
\* inside and outside 0..100, reset_at known and unknown
RECURSIVE Reverse(_)
Reverse(seq) ==
    IF seq = <<>> THEN <<>> ELSE Append(Reverse(Tail(seq)), Head(seq))

SaveWindows == {CachedWindow(604, None), CachedWindow(1204, Some(7)),
                CachedWindow(-50, Some(7))}
SaveRecords ==
    { CacheRecord(fetched_at, codex, copilot, fp, ver) :
        fetched_at \in {0, STALE_FALLBACK_SECONDS},
        codex \in CodexUpTo(SaveWindows)
                  \cup { Reverse(c) : c \in CodexUpTo(SaveWindows) },
        copilot \in {None} \cup { Some(w) : w \in SaveWindows },
        fp \in Fingerprints,
        ver \in {FORMAT_VERSION, FORMAT_VERSION + 10} }

\* what the path holds before the call: nothing, or an earlier record
OldRecord == CacheRecord(0, <<<<"5HR", CachedWindow(500, None)>>>>, None,
                         "fpA", FORMAT_VERSION)

SaveInit ==
    /\ probe = ProbeIdle
    /\ loadp = LoadIdle
    /\ \E r \in SaveRecords :
          call = [op |-> "save_cache", arg |-> Some(r), res |-> None]
    /\ env = [mode |-> "", disabled |-> FALSE, refresh |-> FALSE,
              ttl_seconds |-> DEFAULT_CACHE_TTL_SECONDS,
              is_terminal |-> FALSE, writable |-> TRUE,
              tokens |-> CHOOSE t \in Tokens : TRUE]
    /\ cache_file \in {FMissing, FText(SaveText(OldRecord))}
    /\ clock = 0
    /\ pc = "save_open"
    /\ settings = None
    /\ tmux_record = None
    /\ tasks = NoTasks
    /\ future_map = <<>>
    /\ fetch = NoFetch
    /\ out = <<>>
    /\ exit = None
    /\ log = <<>>

\* path.write_text opens the file for writing, which empties it
SaveOpen ==
    /\ pc = "save_open"
    /\ cache_file' = FText(<<>>)
    /\ pc' = "save_write"
    /\ UNCHANGED <<probe, loadp, call, env, clock, settings, tmux_record,
                   tasks, future_map, fetch, out, exit, log>>

\* the whole text reaches the file and it is closed
SaveWrite ==
    /\ pc = "save_write"
    /\ cache_file' = FText(SaveText(call.arg[1]))
    /\ pc' = "saved"
    /\ UNCHANGED <<probe, loadp, call, env, clock, settings, tmux_record,
                   tasks, future_map, fetch, out, exit, log>>

\* the process dies with a strict prefix of the text on disk
SaveCrash ==
    /\ pc = "save_write"
    /\ LET text == SaveText(call.arg[1])
       IN  \E k \in 0 .. Len(text) - 1, partial \in BOOLEAN :
              cache_file' = FText(CutText(text, k, partial))
    /\ pc' = "crashed"
    /\ UNCHANGED <<probe, loadp, call, env, clock, settings, tmux_record,
                   tasks, future_map, fetch, out, exit, log>>

\* a later process reads the file
LoadSaved ==
    /\ pc \in {"saved", "crashed"}
    /\ call.res = None
    /\ call' = [call EXCEPT !.res = Some(load_cache(Decoded(cache_file)))]
    /\ UNCHANGED <<probe, loadp, runvars>>

SaveNext == SaveOpen \/ SaveWrite \/ SaveCrash \/ LoadSaved

SpecSave == SaveInit /\ [][SaveNext]_vars

----------------------------------------------------------------------------
(* One window from a normalizer, carried into the cache, written, read      *)
(* back and rendered                                                       *)

\* usage in tenths of a percent: far outside 0..100, at its ends, and on
\* both sides of every half and of the colour thresholds
PercentInputs ==
    {-1000, -6, -5, -4, 0, 4, 5, 6, 15, 25, 604, 795, 800, 801, 805, 985,
     989, 990, 994, 995, 996, 1000, 1001, 1204, 2000}
WindowKinds == {"5HR", "Weekly", "monthly"}

PercentInit ==
    /\ probe = ProbeIdle
    /\ loadp = LoadIdle
    /\ \E used_percent \in PercentInputs, label \in WindowKinds,
          reset_at \in {None, Some(STALE_FALLBACK_SECONDS)} :
          call = [op |-> "window",
                  arg |-> Some(UsageWindow(label, used_percent, reset_at)),
                  res |-> None]
    /\ RunIdle

\* the live windows of a fetch that delivered this one window
AsCodexWindows(window) ==
    IF window.label = "monthly" THEN <<>> ELSE <<window>>
AsCopilotWindow(window) ==
    IF window.label = "monthly" THEN Some(window) ELSE None

\* build_cache_record, save_cache, load_cache, _cached_windows in turn
StoreAndReload ==
    /\ call.op = "window"
    /\ LET window == call.arg[1]
           built == build_cache_record(AsCodexWindows(window),
                                       AsCopilotWindow(window),
                                       CHOOSE t \in Tokens : TRUE, 0)
           file == FText(SaveText(built))
           loaded == load_cache(Decoded(file))
       IN  call' = [call EXCEPT
                      !.op = "stored",
                      !.res = Some([built |-> built, file |-> file,
                                    loaded |-> loaded,
                                    cached |-> IF Raised(loaded)
                                                  \/ loaded.v = None
                                               THEN None
                                               ELSE Some(_cached_windows(
                                                           loaded.v[1]))])]
    /\ UNCHANGED <<probe, loadp, runvars>>

\* the status line and the plain listing of the windows read back
RenderStored ==
    /\ call.op = "stored"
    /\ call.res[1].cached # None
    /\ LET cached == call.res[1].cached[1]
           all == cached.codex_windows \o
                  (IF cached.copilot_window = None THEN <<>>
                   ELSE cached.copilot_window)
       IN  /\ out' = <<render_tmux_status(cached.codex_windows,
                                          cached.copilot_window),
                       [i \in DOMAIN all |-> section_percent_text(all[i])]>>
           /\ call' = [call EXCEPT !.op = "rendered"]
    /\ UNCHANGED <<probe, loadp, env, cache_file, clock, pc, settings,
                   tmux_record, tasks, future_map, fetch, exit, log>>

PercentNext == StoreAndReload \/ RenderStored

SpecPercent == PercentInit /\ [][PercentNext]_vars

----------------------------------------------------------------------------
(* Direct calls of parse_codex_usage *)

\* an object of the members that are there
ObjectOf(members) == JDict(SelectSeq(members, LAMBDA kv : kv[2] # JAbsent))

CodexPercents == {JAbsent, JNull, JNum(420), JNumStr(125), JText("n/a"),
                  JArray(<<>>)}
CodexUseds == {JAbsent, JNum(30), JText("x")}
CodexLimits == {JAbsent, JNull, JNum(50), JNum(0), JText("x")}
CodexResets == {JAbsent, JIso(5), JText("soon")}

\* an entry with the given window and name members and every combination of
\* the other members
CodexEntries(window, name) ==
    { ObjectOf(<< <<"window", window>>, <<"name", name>>,
                  <<"used_percent", used_percent>>, <<"used", used>>,
                  <<"limit", limit>>, <<"reset_at", reset_at>> >>) :
        used_percent \in CodexPercents, used \in CodexUseds,
        limit \in CodexLimits, reset_at \in CodexResets }

\* entries that are in order
GoodEntries(window, name) ==
    { ObjectOf(<< <<"window", window>>, <<"name", name>>,
                  <<"used_percent", JNum(100)>> >>),
      ObjectOf(<< <<"window", window>>, <<"name", name>>,
                  <<"used", JNum(30)>>, <<"limit", JNum(50)>> >>) }

\* rate_limit as an object of named windows, as a list of entries, as one
\* entry, as null, or not there
CodexPayloads ==
    { JDict(<< <<"rate_limit",
                 JDict(<< <<"primary_window", first>>, <<second_name, second>> >>)>> >>) :
        first \in CodexEntries(JAbsent, JAbsent),
        second_name \in {"secondary_window", "5h"},
        second \in GoodEntries(JAbsent, JAbsent) }
    \cup
    { JDict(<< <<"rate_limit", JArray(<<first, JNum(5), second>>)>> >>) :
        first \in GoodEntries(JText("weekly"), JAbsent),
        second \in CodexEntries(JText(""), JText("code_review")) }
    \cup
    { JDict(<< <<"rate_limit", entry>> >>) :
        entry \in CodexEntries(JAbsent, JAbsent) }
    \cup
    { JDict(<< <<"rate_limit", JNull>> >>), JDict(<<>>) }

CodexInit ==
    /\ probe = ProbeIdle
    /\ loadp = LoadIdle
    /\ \E payload \in CodexPayloads :
          call = [op |-> "parse_codex_usage", arg |-> Some(payload),
                  res |-> None]
    /\ RunIdle

CallParseCodexUsage ==
    /\ call.op = "parse_codex_usage"
    /\ call.res = None
    /\ call' = [call EXCEPT !.res = Some(parse_codex_usage(call.arg[1]))]
    /\ UNCHANGED <<probe, loadp, runvars>>

CodexNext == CallParseCodexUsage

SpecCodex == CodexInit /\ [][CodexNext]_vars

----------------------------------------------------------------------------
(* Direct calls of the Copilot normalizers *)

\* the most usage items of a billing payload
MaxItems == 3

Entitlements == {JAbsent, JNull, JNum(0), JNum(-1), JNum(50), JNumStr(50),
                 JNum(1000), JText("x")}
Remainings == {JAbsent, JNum(0), JNum(20), JNumStr(20), JNum(50), JNum(60),
               JNum(-10), JText("x")}
Unlimiteds == {JAbsent, JNull, JBool(TRUE), JBool(FALSE)}
ResetDates == {JAbsent, JNull, JText(""), JIso(5), JText("soon")}
ResetDatesUtc == {JAbsent, JIso(9)}

InternalPayloads ==
    { ObjectOf(<< <<"quota_snapshots",
                    JDict(<< <<"premium_interactions",
                               ObjectOf(<< <<"entitlement", entitlement>>,
                                           <<"remaining", remaining>>,
                                           <<"unlimited", unlimited>> >>)>> >>)>>,
                  <<"quota_reset_date", reset>>,
                  <<"quota_reset_date_utc", reset_utc>> >>) :
        entitlement \in Entitlements, remaining \in Remainings,
        unlimited \in Unlimiteds, reset \in ResetDates,
        reset_utc \in ResetDatesUtc }
    \cup { JDict(<<>>), JDict(<< <<"quota_snapshots", JNull>> >>),
           JDict(<< <<"quota_snapshots", JDict(<<>>)>> >>) }

UsageItems ==
    { ObjectOf(<< <<"grossQuantity", quantity>>, <<"product", product>> >>) :
        quantity \in {JNum(120), JNum(30), JText("x")},
        product \in {JText("Copilot"), JText("Codespaces"), JAbsent} }

RECURSIVE ItemLists(_)
ItemLists(n) ==
    IF n = 0 THEN {<<>>}
    ELSE ItemLists(n - 1)
         \cup { Append(items, item) :
                  items \in { l \in ItemLists(n - 1) : Len(l) = n - 1 },
                  item \in UsageItems }

BillingPayloads ==
    { ObjectOf(<< <<"usageItems", usage_items>>,
                  <<"grossQuantity", quantity>> >>) :
        usage_items \in {JAbsent, JNull}
                        \cup { JArray(items) : items \in ItemLists(MaxItems) },
        quantity \in {JAbsent, JNum(78)} }

Todays == {Date(2026, 1, 25), Date(2026, 11, 30), Date(2026, 12, 31),
           Date(2027, 2, 28)}

CopilotInit ==
    /\ probe = ProbeIdle
    /\ loadp = LoadIdle
    /\ \/ \E payload \in InternalPayloads :
             call = [op |-> "internal", arg |-> Some(payload), res |-> None]
       \/ \E payload \in BillingPayloads, today \in Todays :
             call = [op |-> "billing",
                     arg |-> Some([payload |-> payload, today |-> today]),
                     res |-> None]
    /\ RunIdle

CallParseCopilotInternal ==
    /\ call.op = "internal"
    /\ call' = [call EXCEPT !.op = "parse_copilot_internal",
                            !.res = Some(parse_copilot_internal(call.arg[1]))]
    /\ UNCHANGED <<probe, loadp, runvars>>

CallParseCopilotUsage ==
    /\ call.op = "billing"
    /\ call' = [call EXCEPT
                  !.op = "parse_copilot_usage",
                  !.res = Some([used |->
                                  parse_copilot_usage(call.arg[1].payload),
                                window |-> None])]
    /\ UNCHANGED <<probe, loadp, runvars>>

CallBuildCopilotWindow ==
    /\ call.op = "parse_copilot_usage"
    /\ call' = [call EXCEPT
                  !.op = "build_copilot_window",
                  !.res = Some([call.res[1] EXCEPT
                                  !.window =
                                     Some(build_copilot_window(
                                            call.res[1].used,
                                            call.arg[1].today))])]
    /\ UNCHANGED <<probe, loadp, runvars>>

CopilotNext ==
    \/ CallParseCopilotInternal
    \/ CallParseCopilotUsage
    \/ CallBuildCopilotWindow

SpecCopilot == CopilotInit /\ [][CopilotNext]_vars

----------------------------------------------------------------------------
(* One invocation of the command line (cli.py), credentials loaded *)

\* what the live fetches can end with.  fetch_codex_usage returns the parsed
\* windows or raises; fetch_copilot_usage returns one window or raises.
\* HTTPError: the transport or raise_for_status; RuntimeError: "GitHub
\* response missing login"; ValueError: response.json(), float() or
\* datetime.fromisoformat on a payload that is not as expected.
LiveCodex(n) == [i \in 1 .. n |-> UsageWindow(CodexLabels[i], 604, None)]
Outcomes(name) ==
    IF name = "Codex"
    THEN { Ret(LiveCodex(n)) : n \in {0, MaxCodex} }
         \cup { Ret(<<UsageWindow("burst window", 100, None)>>) }
         \cup { Raise(e) : e \in {"HTTPError", "ValueError"} }
    ELSE { Ret(Some(UsageWindow("monthly", 1204, Some(STALE_FALLBACK_SECONDS)))) }
         \cup { Raise(e) : e \in {"HTTPError", "RuntimeError", "ValueError"} }

\* the cache files an invocation may find: records written earlier, of
\* every age around the thresholds, and files that are not records
RunTTLs == {DEFAULT_CACHE_TTL_SECONDS,
            STALE_FALLBACK_SECONDS + DEFAULT_CACHE_TTL_SECONDS}
RunAges == {0} \cup Around(DEFAULT_CACHE_TTL_SECONDS)
               \cup Around(STALE_FALLBACK_SECONDS)
RunWindows(now) ==
    { [codex |-> <<>>, copilot |-> None],
      [codex |-> <<<<"5HR", CachedWindow(500, None)>>>>, copilot |-> None],
      [codex |-> <<<<"5HR", CachedWindow(500, Some(now + 1))>>>>,
       copilot |-> Some(CachedWindow(995, None))],
      [codex |-> <<<<"5HR", CachedWindow(500, None)>>>>,
       copilot |-> Some(CachedWindow(995, Some(now)))] }
RunRecords(now) ==
    { CacheRecord(now - age, w.codex, w.copilot, fp, FORMAT_VERSION) :
        age \in RunAges, w \in RunWindows(now), fp \in Fingerprints }
    \cup { CacheRecord(now, <<<<"5HR", CachedWindow(500, None)>>>>, None, fp,
                       FORMAT_VERSION + 1) : fp \in Fingerprints }
RunFiles(now) ==
    { Serialize(r) : r \in RunRecords(now) }
    \cup { FMissing, FNotJson, FBadUtf8,
           FJson(JPayload(JText("yesterday"), JCodex(<<>>), JNull,
                          JText("fpA"), JNum(FORMAT_VERSION))),
           FJson(JPayload(JIso(now), JCodex(<<>>),
                          JWindow(JText("n/a"), JNull),
                          JText("fpA"), JNum(FORMAT_VERSION))) }

\* the most seconds the clock advances while the fetches run
MaxFetchSeconds == 1

Fingerprint == build_auth_fingerprint(env.tokens)
ShowProgress == env.mode = "plain"

Init ==
    /\ probe = ProbeIdle
    /\ loadp = LoadIdle
    /\ call = CallIdle
    /\ env \in [mode : {"plain", "tmux"}, disabled : BOOLEAN,
                refresh : BOOLEAN, ttl_seconds : RunTTLs,
                is_terminal : BOOLEAN, writable : BOOLEAN,
                tokens : {t \in Tokens : t.openai = "tokA"}]
    /\ clock = 0
    /\ cache_file \in RunFiles(0)
    /\ pc = "main"
    /\ settings = None
    /\ tmux_record = None
    /\ tasks = NoTasks
    /\ future_map = <<>>
    /\ fetch = NoFetch
    /\ out = <<>>
    /\ exit = None
    /\ log = <<>>

\* the process ends with a status; an uncaught exception ends it with 1 and
\* a traceback
Exit(code) == exit' = Some([code |-> code, exc |-> ""]) /\ pc' = "done"
Crash(e) == exit' = Some([code |-> 1, exc |-> e]) /\ pc' = "done"

\* a call of load_cache in the log, with what it ended with
LoadEvent(r) ==
    IF Raised(r) THEN "load_cache:raise"
    ELSE IF r.v = None THEN "load_cache:none" ELSE "load_cache:record"
LoadEvents == {"load_cache:raise", "load_cache:none", "load_cache:record"}

\* main, lines 20-52
Main ==
    /\ pc = "main"
    /\ pc' = IF env.mode = "tmux" THEN "run_tmux" ELSE "submit"
    /\ UNCHANGED <<probe, loadp, call, env, cache_file, clock, settings,
                   tmux_record, tasks, future_map, fetch, out, exit, log>>

\* a start of _run_tmux that loads the cache whatever the flags say
RunTmuxAlwaysLoading ==
    /\ pc = "run_tmux"
    /\ settings' = Some([ttl_seconds |-> env.ttl_seconds,
                         disabled |-> env.disabled, refresh |-> env.refresh])
    /\ pc' = "load_first"
    /\ UNCHANGED <<probe, loadp, call, env, cache_file, clock, tmux_record,
                   tasks, future_map, fetch, out, exit, log>>

\* _run_tmux, lines 139-144
RunTmux ==
    /\ pc = "run_tmux"
    /\ settings' = Some([ttl_seconds |-> env.ttl_seconds,
                         disabled |-> env.disabled, refresh |-> env.refresh])
    /\ pc' = IF ~ env.disabled /\ ~ env.refresh THEN "load_first" ELSE "submit"
    /\ UNCHANGED <<probe, loadp, call, env, cache_file, clock, tmux_record,
                   tasks, future_map, fetch, out, exit, log>>

\* _run_tmux, line 145
LoadFirst ==
    /\ pc = "load_first"
    /\ LET r == load_cache(cache_file)
       IN  /\ log' = Append(log, LoadEvent(r))
           /\ IF Raised(r)
              THEN Crash(r.exc) /\ UNCHANGED tmux_record
              ELSE tmux_record' = r.v /\ pc' = "fresh_check" /\ UNCHANGED exit
    /\ UNCHANGED <<probe, loadp, call, env, cache_file, clock, settings,
                   tasks, future_map, fetch, out>>

\* _run_tmux, lines 146-152
FreshCheck ==
    /\ pc = "fresh_check"
    /\ IF tmux_record = None
       THEN pc' = "submit" /\ UNCHANGED <<out, exit, log>>
       ELSE IF is_fresh(tmux_record[1], settings[1].ttl_seconds, Fingerprint,
                        clock)
       THEN LET cached == _cached_windows(tmux_record[1])
                status == render_tmux_status(cached.codex_windows,
                                             cached.copilot_window)
            IN  IF status # <<>>
                THEN /\ out' = Append(out, status)
                     /\ log' = log \o <<"is_fresh:true", "write_cached">>
                     /\ Exit(0)
                ELSE /\ log' = Append(log, "is_fresh:true")
                     /\ Exit(1)
                     /\ UNCHANGED out
       ELSE /\ pc' = "submit"
            /\ log' = Append(log, "is_fresh:false")
            /\ UNCHANGED <<out, exit>>
    /\ UNCHANGED <<probe, loadp, call, env, cache_file, clock, settings,
                   tmux_record, tasks, future_map, fetch>>

\* _fetch_usage, lines 86-101: the locals, and both fetches submitted to the
\* two-worker pool
Submit ==
    /\ pc = "submit"
    /\ fetch' = NoFetch
    /\ tasks' = [n \in Range(Names) |-> [st |-> "running", res |-> Ret(None)]]
    /\ future_map' = Names
    /\ pc' = IF ShowProgress /\ env.is_terminal THEN "poll" ELSE "collect"
    /\ log' = Append(log, "fetch_start")
    /\ UNCHANGED <<probe, loadp, call, env, cache_file, clock, settings,
                   tmux_record, out, exit>>

\* a worker thread: fetch_codex_usage or fetch_copilot_usage returns or raises
TaskFinish(name) ==
    /\ tasks[name].st = "running"
    /\ \E res \in Outcomes(name) :
          tasks' = [tasks EXCEPT ![name] = [st |-> "done", res |-> res]]
    /\ UNCHANGED <<probe, loadp, call, env, cache_file, clock, pc, settings,
                   tmux_record, future_map, fetch, out, exit, log>>

\* future.result() and its handlers, lines 118-125 and 128-133: the caught
\* errors become a failure message, a result is stored, and any other
\* exception is left to propagate (kept in exc)
HandleResult(f, name) ==
    LET res == tasks[name].res
    IN  IF res.exc \in {"HTTPError", "RuntimeError"}
        THEN [f EXCEPT !.failures = Append(@, [name |-> name, exc |-> res.exc])]
        ELSE IF res.exc # "" THEN [f EXCEPT !.exc = res.exc]
        ELSE IF name = "Codex" THEN [f EXCEPT !.codex_windows = res.v]
        ELSE [f EXCEPT !.copilot_window = res.v]

Without(map, name) == SelectSeq(map, LAMBDA n : n # name)

\* the futures of order handled one after the other, until one propagates
RECURSIVE HandleAll(_, _, _)
HandleAll(f, map, order) ==
    IF order = <<>> \/ f.exc # "" THEN [fetch |-> f, future_map |-> map]
    ELSE HandleAll(HandleResult(f, Head(order)), Without(map, Head(order)),
                   Tail(order))

Handled(h) ==
    /\ fetch' = h.fetch
    /\ future_map' = h.future_map
    /\ pc' = IF h.fetch.exc # "" \/ h.future_map = <<>>
             THEN "executor_exit" ELSE pc

\* a collection that reads the next future without waiting for its task
CollectWithoutWaiting ==
    /\ pc = "collect"
    /\ Handled(HandleAll(fetch, future_map, <<Head(future_map)>>))
    /\ UNCHANGED <<probe, loadp, call, env, cache_file, clock, settings,
                   tmux_record, tasks, out, exit, log>>

\* the blocking branch, lines 127-133: the futures in the order submitted,
\* each waited for
Collect ==
    /\ pc = "collect"
    /\ tasks[Head(future_map)].st = "done"
    /\ Handled(HandleAll(fetch, future_map, <<Head(future_map)>>))
    /\ UNCHANGED <<probe, loadp, call, env, cache_file, clock, settings,
                   tmux_record, tasks, out, exit, log>>

\* the polling branch, lines 113-125: wait() hands over the futures that
\* have completed, as a set; they are handled in the order the set yields
Orders(S) ==
    { o \in [1 .. Cardinality(S) -> S] :
        \A i, j \in DOMAIN o : i # j => o[i] # o[j] }

Poll ==
    /\ pc = "poll"
    /\ LET done == { n \in Range(future_map) : tasks[n].st = "done" }
       IN  /\ done # {}
           /\ \E order \in Orders(done) :
                 Handled(HandleAll(fetch, future_map, order))
    /\ UNCHANGED <<probe, loadp, call, env, cache_file, clock, settings,
                   tmux_record, tasks, out, exit, log>>

\* leaving "with ThreadPoolExecutor", line 97: shutdown(wait=True) joins both
\* workers; then _fetch_usage returns its three locals, or the pending
\* exception goes on up through main and the locals are lost with the frame
ExecutorExit ==
    /\ pc = "executor_exit"
    /\ \A n \in Range(Names) : tasks[n].st = "done"
    /\ \E d \in 0 .. MaxFetchSeconds : clock' = clock + d
    /\ log' = Append(log, "fetch_end")
    /\ IF fetch.exc # ""
       THEN /\ Crash(fetch.exc)
            /\ fetch' = [NoFetch EXCEPT !.exc = fetch.exc]
       ELSE /\ pc' = IF env.mode = "tmux" THEN "after_fetch" ELSE "plain_render"
            /\ UNCHANGED <<exit, fetch>>
    /\ UNCHANGED <<probe, loadp, call, env, cache_file, settings,
                   tmux_record, tasks, future_map, out>>

\* main, lines 54-67: the sections, then the failure messages
PlainRender ==
    /\ pc = "plain_render"
    /\ LET sections ==
              (IF fetch.codex_windows # <<>>
               THEN <<[title |-> "Codex", windows |-> fetch.codex_windows]>>
               ELSE <<>>)
              \o (IF fetch.copilot_window # None
                  THEN <<[title |-> "GitHub Copilot",
                          windows |-> fetch.copilot_window]>>
                  ELSE <<>>)
       IN  out' = out \o (IF sections # <<>> THEN <<sections>> ELSE <<>>)
                      \o fetch.failures
    /\ IF fetch.codex_windows = <<>> /\ fetch.copilot_window = None
       THEN Exit(1) ELSE Exit(0)
    /\ UNCHANGED <<probe, loadp, call, env, cache_file, clock, settings,
                   tmux_record, tasks, future_map, fetch, log>>

LiveStatus == render_tmux_status(fetch.codex_windows, fetch.copilot_window)

\* _run_tmux, lines 157-160
AfterFetch ==
    /\ pc = "after_fetch"
    /\ pc' = IF (fetch.codex_windows # <<>> \/ fetch.copilot_window # None)
                /\ LiveStatus # <<>>
             THEN IF ~ settings[1].disabled /\ fetch.failures = <<>>
                  THEN "save" ELSE "write_live"
             ELSE "fallback"
    /\ UNCHANGED <<probe, loadp, call, env, cache_file, clock, settings,
                   tmux_record, tasks, future_map, fetch, out, exit, log>>

\* save_cache: mkdir and write_text raise OSError where they cannot write
save_cache(path_writable, rec) ==
    IF path_writable THEN Ret(Some(Serialize(rec))) ELSE Raise("OSError")

\* _run_tmux, lines 161-162
Save ==
    /\ pc = "save"
    /\ LET rec == build_cache_record(fetch.codex_windows,
                                     fetch.copilot_window, env.tokens, clock)
           saved == save_cache(env.writable, rec)
       IN  /\ tmux_record' = Some(rec)
           /\ log' = Append(log, "save_cache")
           /\ IF Raised(saved)
              THEN Crash(saved.exc) /\ UNCHANGED cache_file
              ELSE /\ cache_file' = saved.v[1]
                   /\ pc' = "write_live"
                   /\ UNCHANGED exit
    /\ UNCHANGED <<probe, loadp, call, env, clock, settings, tasks,
                   future_map, fetch, out>>

\* _run_tmux, lines 163-164
WriteLive ==
    /\ pc = "write_live"
    /\ out' = Append(out, LiveStatus)
    /\ log' = Append(log, "write_live")
    /\ Exit(0)
    /\ UNCHANGED <<probe, loadp, call, env, cache_file, clock, settings,
                   tmux_record, tasks, future_map, fetch>>

\* _run_tmux, lines 166-168 and 176
Fallback ==
    /\ pc = "fallback"
    /\ IF settings[1].disabled THEN Exit(1) /\ UNCHANGED <<tmux_record, log>>
       ELSE IF tmux_record # None
       THEN pc' = "stale_check" /\ UNCHANGED <<tmux_record, exit, log>>
       ELSE LET r == load_cache(cache_file)
            IN  /\ log' = Append(log, LoadEvent(r))
                /\ IF Raised(r)
                   THEN Crash(r.exc) /\ UNCHANGED tmux_record
                   ELSE /\ tmux_record' = r.v
                        /\ pc' = "stale_check"
                        /\ UNCHANGED exit
    /\ UNCHANGED <<probe, loadp, call, env, cache_file, clock, settings,
                   tasks, future_map, fetch, out>>

\* _run_tmux, lines 169-176
StaleCheck ==
    /\ pc = "stale_check"
    /\ IF tmux_record = None
       THEN Exit(1) /\ UNCHANGED <<out, log>>
       ELSE IF is_stale_allowed(tmux_record[1], STALE_FALLBACK_SECONDS,
                                Fingerprint, clock)
       THEN LET cached == _cached_windows(tmux_record[1])
                status == render_tmux_status(cached.codex_windows,
                                             cached.copilot_window)
            IN  IF status # <<>>
                THEN /\ out' = Append(out, status)
                     /\ log' = log \o <<"is_stale_allowed:true", "write_cached">>
                     /\ Exit(0)
                ELSE /\ log' = Append(log, "is_stale_allowed:true")
                     /\ Exit(1)
                     /\ UNCHANGED out
       ELSE /\ log' = Append(log, "is_stale_allowed:false")
            /\ Exit(1)
            /\ UNCHANGED out
    /\ UNCHANGED <<probe, loadp, call, env, cache_file, clock, settings,
                   tmux_record, tasks, future_map, fetch>>

Next ==
    \/ Main
    \/ RunTmux
    \/ LoadFirst
    \/ FreshCheck
    \/ Submit
    \/ \E name \in Range(Names) : TaskFinish(name)
    \/ Collect
    \/ Poll
    \/ ExecutorExit
    \/ PlainRender
    \/ AfterFetch
    \/ Save
    \/ WriteLive
    \/ Fallback
    \/ StaleCheck

Spec == Init /\ [][Next]_vars

----------------------------------------------------------------------------
(* A run that caches its live result, and the run after it that serves the *)
(* record (cli._run_tmux, cache enabled, no refresh, both fetches good)    *)

\* the most Codex windows of a live result
MaxWindows == 2

StatusLabels == {"5HR", " 5hr ", "Weekly", "burst window"}
StatusWindows ==
    { UsageWindow(label, used_percent, None) :
        label \in StatusLabels, used_percent \in {100, 900} }

RECURSIVE WindowLists(_)
WindowLists(n) ==
    IF n = 0 THEN {<<>>}
    ELSE WindowLists(n - 1)
         \cup { Append(windows, window) :
                  windows \in { l \in WindowLists(n - 1) : Len(l) = n - 1 },
                  window \in StatusWindows }

StatusInit ==
    /\ probe = ProbeIdle
    /\ loadp = LoadIdle
    /\ \E codex_windows \in WindowLists(MaxWindows),
          copilot_window \in {None, Some(UsageWindow("monthly", 500, None))} :
          call = [op |-> "live",
                  arg |-> Some([codex_windows |-> codex_windows,
                                copilot_window |-> copilot_window]),
                  res |-> None]
    /\ RunIdle

\* _run_tmux, lines 157-164: a result with a status is saved and printed
WriteRecord ==
    /\ call.op = "live"
    /\ LET live == call.arg[1]
           status == render_tmux_status(live.codex_windows,
                                        live.copilot_window)
           rec == build_cache_record(live.codex_windows, live.copilot_window,
                                     env.tokens, clock)
       IN  /\ live.codex_windows # <<>> \/ live.copilot_window # None
           /\ status # <<>>
           /\ tmux_record' = Some(rec)
           /\ cache_file' = save_cache(TRUE, rec).v[1]
           /\ out' = Append(out, status)
           /\ log' = log \o <<"save_cache", "write_live">>
    /\ call' = [call EXCEPT !.op = "written"]
    /\ UNCHANGED <<probe, loadp, env, clock, pc, settings, tasks, future_map,
                   fetch, exit>>

\* _run_tmux, lines 145-152, in a later run: the record is loaded and, being
\* fresh, rendered; an empty status is not printed and the run exits with 1
ServeCached ==
    /\ call.op = "written"
    /\ \E d \in 0 .. DEFAULT_CACHE_TTL_SECONDS : clock' = clock + d
    /\ LET loaded == load_cache(cache_file)
       IN  /\ ~ Raised(loaded)
           /\ loaded.v # None
           /\ is_fresh(loaded.v[1], DEFAULT_CACHE_TTL_SECONDS, Fingerprint,
                       clock')
           /\ LET cached == _cached_windows(loaded.v[1])
                  status == render_tmux_status(cached.codex_windows,
                                               cached.copilot_window)
              IN  /\ call' = [call EXCEPT !.op = "served",
                                          !.res = Some(status)]
                  /\ tmux_record' = loaded.v
                  /\ IF status # <<>>
                     THEN /\ out' = Append(out, status)
                          /\ exit' = Some([code |-> 0, exc |-> ""])
                          /\ log' = log \o <<"is_fresh:true", "write_cached">>
                     ELSE /\ exit' = Some([code |-> 1, exc |-> ""])
                          /\ log' = Append(log, "is_fresh:true")
                          /\ UNCHANGED out
    /\ UNCHANGED <<probe, loadp, env, cache_file, pc, settings, tasks,
                   future_map, fetch>>

StatusNext == WriteRecord \/ ServeCached

SpecStatus == StatusInit /\ [][StatusNext]_vars

----------------------------------------------------------------------------
(* Properties of the freshness predicates (SpecFresh) *)

ProbeCalled(op) == probe.op = op /\ probe.res # None
ProbeRecord == probe.record[1]
ProbeAge == probe.now - ProbeRecord.fetched_at
ProbeAllWindows ==
    CodexValues(ProbeRecord) \cup Range(ProbeRecord.copilot)
ProbeExpired ==
    { w \in ProbeAllWindows : w.reset_at # None /\ w.reset_at[1] <= probe.now }
ProbeUnexpired == ProbeAllWindows \ ProbeExpired

\* C1: is_fresh(R, ttl, fp, now) is true exactly when R.format_version is the
\* current format version, R.auth_fingerprint is fp, the age now - fetched_at
\* is at most ttl (an age equal to ttl is fresh), and no codex or copilot
\* window of R has a reset_at at or before now.
C1_IsFreshIff ==
    ProbeCalled("is_fresh") =>
        ( probe.res[1] <=>
            /\ ProbeRecord.format_version = FORMAT_VERSION
            /\ ProbeRecord.auth_fingerprint = probe.fp
            /\ ProbeAge <= probe.ttl
            /\ ProbeExpired = {} )

\* is_fresh has accepted a record whose age is exactly ttl
C1_Witness ==
    /\ ProbeCalled("is_fresh")
    /\ ProbeAge = probe.ttl
    /\ ProbeAllWindows # {}
    /\ probe.res[1]

\* C2: a record whose auth_fingerprint differs from the caller's is rejected
\* by is_fresh and by is_stale_allowed, whatever its age (zero and negative
\* included), the ttl or max age, and its windows.
C2_FingerprintMismatchRejected ==
    (probe.res # None /\ ProbeRecord.auth_fingerprint # probe.fp) =>
        ~ probe.res[1]

\* is_stale_allowed has rejected a record of another credential set that is
\* otherwise acceptable: current version, negative age, no reset passed
C2_Witness ==
    /\ ProbeCalled("is_stale_allowed")
    /\ ProbeRecord.auth_fingerprint # probe.fp
    /\ ProbeRecord.format_version = FORMAT_VERSION
    /\ ProbeAge < 0
    /\ ProbeExpired = {}
    /\ ~ probe.res[1]

\* C3: a record with any window whose reset_at is at or before now is
\* rejected by both predicates whatever the age, the ttl and the other
\* windows; windows without a reset_at take no part in the verdict.
C3_ResetBoundaryRejected ==
    probe.res # None =>
        /\ ProbeExpired # {} => ~ probe.res[1]
        /\ (\A w \in ProbeAllWindows : w.reset_at = None) =>
              ( probe.res[1] <=>
                  /\ ProbeRecord.format_version = FORMAT_VERSION
                  /\ ProbeRecord.auth_fingerprint = probe.fp
                  /\ ProbeAge <= probe.ttl )

\* one window resets exactly at now, another one later, and the record is
\* rejected although young and of the caller's credentials
C3_Witness ==
    /\ probe.res # None
    /\ \E w \in ProbeExpired : w.reset_at[1] = probe.now
    /\ \E w \in ProbeUnexpired : w.reset_at # None
    /\ ProbeRecord.format_version = FORMAT_VERSION
    /\ ProbeRecord.auth_fingerprint = probe.fp
    /\ ProbeAge <= probe.ttl
    /\ ~ probe.res[1]

----------------------------------------------------------------------------
(* Properties of load_cache (SpecLoad) *)

LoadResult == loadp.res[1]
LoadPayload == loadp.file.payload
IsObject(file) == file.k = "json" /\ file.payload.t = "dict"
LacksRequired(payload) ==
    \E key \in {"fetched_at", "auth_fingerprint", "format_version"} :
        payload[key].t \in {"absent", "null"}
NumericPercent(j) ==
    /\ j.t = "dict" /\ "used_percent" \in DOMAIN j
    /\ j.used_percent.t \in {"num", "numstr"}
RawCodexItems(payload) ==
    IF payload.codex.t = "dict" THEN payload.codex.items ELSE <<>>

\* C10: for every content of the cache file load_cache returns a record or
\* None and never raises; it returns None when the file is missing, is no
\* decodable JSON, or lacks fetched_at, auth_fingerprint or format_version;
\* a window whose used_percent is not numeric is dropped and the rest of the
\* record is kept.
C10_LoadCacheNeverRaises ==
    loadp.res # None =>
        /\ ~ Raised(LoadResult)
        /\ ~ IsObject(loadp.file) => LoadResult = Ret(None)
        /\ (IsObject(loadp.file) /\ LacksRequired(LoadPayload)) =>
              LoadResult = Ret(None)
        /\ (IsObject(loadp.file) /\ LoadResult.v # None) =>
              /\ { e[1] : e \in Range(LoadResult.v[1].codex) } =
                 { e[1] : e \in { x \in Range(RawCodexItems(LoadPayload)) :
                                      NumericPercent(x[2]) } }
              /\ LoadResult.v[1].copilot # None <=>
                    NumericPercent(LoadPayload.copilot)

----------------------------------------------------------------------------
(* Properties of an invocation (Spec) *)

Done == pc = "done"
InLog(e) == \E i \in DOMAIN log : log[i] = e
Count(events) == Cardinality({ i \in DOMAIN log : log[i] \in events })
CacheEnabled == env.mode = "tmux" /\ ~ env.disabled
Returned(name) == tasks[name].st = "done" /\ tasks[name].res.exc = ""
Failed(name) == tasks[name].st = "done" /\ tasks[name].res.exc # ""
YieldedData(name) ==
    /\ Returned(name)
    /\ tasks[name].res.v # <<>>
NoLiveData == fetch.codex_windows = <<>> /\ fetch.copilot_window = None
CachedStatus(rec) ==
    render_tmux_status(_cached_windows(rec).codex_windows,
                       _cached_windows(rec).copilot_window)
\* the record the cache file holds, if load_cache can produce one
Stored == load_cache(cache_file)
StoredPasses(max_age_seconds) ==
    /\ ~ Raised(Stored) /\ Stored.v # None
    /\ is_stale_allowed(Stored.v[1], max_age_seconds, Fingerprint, clock)

\* whatever is written from the cache was stored under the credentials of
\* this invocation
ServedRecordIsOwn ==
    InLog("write_cached") => tmux_record[1].auth_fingerprint = Fingerprint

\* C4: tmux mode, cache enabled, refresh not forced: a fresh loaded record is
\* served (its status written, exit 0) and no provider fetch is started; with
\* no record loaded, or a record that is not fresh, the live fetch is started.
C4_FreshServedElseLive ==
    (CacheEnabled /\ ~ env.refresh /\ Done) =>
        /\ InLog("is_fresh:true") =>
              /\ exit[1].code = 0
              /\ out = <<CachedStatus(tmux_record[1])>>
              /\ ~ InLog("fetch_start")
        /\ (InLog("load_cache:none") \/ InLog("is_fresh:false")) =>
              InLog("fetch_start")

\* C5: tmux mode, cache enabled: is_stale_allowed is consulted only after the
\* live fetch has ended; a record not accepted as fresh is written only after
\* a fetch that yielded no data; and after such a fetch the cached record is
\* served with exit 0 exactly when it passes is_stale_allowed with the
\* 86400-second ceiling.
C5_StaleOnlyAfterFailedFetch ==
    CacheEnabled =>
        /\ \A j \in DOMAIN log :
              log[j] \in {"is_stale_allowed:true", "is_stale_allowed:false"} =>
                 \E i \in 1 .. j - 1 : log[i] = "fetch_end"
        /\ (InLog("write_cached") /\ ~ InLog("is_fresh:true")) =>
              InLog("fetch_end") /\ NoLiveData
        /\ (Done /\ InLog("fetch_end") /\ NoLiveData) =>
              ( (exit[1].code = 0 /\ InLog("write_cached"))
                  <=> StoredPasses(STALE_FALLBACK_SECONDS) )

\* C6: with credentials loaded, an invocation ends with a non-zero status
\* exactly when no provider yielded usage data and no admissible cached
\* record exists (one that is fresh, unless a refresh is forced, or that is
\* stale-allowed).
C6_NonZeroIffTotalFailure ==
    Done =>
        ( exit[1].code # 0 <=>
            /\ \A n \in Range(Names) : ~ YieldedData(n)
            /\ ~ ( /\ CacheEnabled
                   /\ ~ Raised(Stored) /\ Stored.v # None
                   /\ \/ /\ ~ env.refresh
                         /\ is_fresh(Stored.v[1], env.ttl_seconds,
                                     Fingerprint, clock)
                      \/ StoredPasses(STALE_FALLBACK_SECONDS) ) )

\* C7: in one invocation load_cache is called at most once and save_cache at
\* most once.
C7_ReadOnceWriteOnce ==
    /\ Count(LoadEvents) <= 1
    /\ Count({"save_cache"}) <= 1

\* C8: when save_cache fails after a live fetch that produced data, the
\* status of the fetched data is still written and the invocation exits 0.
C8_SaveFailureNotFatal ==
    (Done /\ InLog("save_cache") /\ ~ env.writable) =>
        /\ exit[1].code = 0
        /\ out = <<LiveStatus>>

\* C9: whatever one provider fails with, the data the other returned reaches
\* the combined result; when exactly one provider fails and the other
\* returned data, the invocation shows that data, the result holds exactly
\* one failure message, naming the failed provider, and the exit status is 0.
C9_PartialFailureIsolated ==
    (Done /\ InLog("fetch_end")) =>
        /\ YieldedData("Codex") =>
              fetch.codex_windows = tasks["Codex"].res.v
        /\ YieldedData("GitHub Copilot") =>
              fetch.copilot_window = tasks["GitHub Copilot"].res.v
        /\ \A n, m \in Range(Names) :
              (Failed(n) /\ YieldedData(m)) =>
                 /\ exit[1].code = 0
                 /\ out # <<>>
                 /\ Len(fetch.failures) = 1
                 /\ fetch.failures[1].name = n

\* both fetches of the invocation returned
CombinedSuccess ==
    Returned("Codex") /\ Returned("GitHub Copilot")

\* the record a successful fetch is stored as: the time of the fetch, the
\* credentials of the invocation, the 5HR and Weekly windows and the copilot
\* window of this fetch, and nothing else
FetchedRecord ==
    LET live == tasks["Codex"].res.v
        kept == SelectSeq(live, LAMBDA w : w.label \in {"5HR", "Weekly"})
        copilot == tasks["GitHub Copilot"].res.v[1]
    IN  [fetched_at |-> clock,
         codex |-> [i \in DOMAIN kept |->
                      <<kept[i].label,
                        [used_percent |-> kept[i].used_percent,
                         reset_at |-> kept[i].reset_at]>>],
         copilot |-> Some([used_percent |-> copilot.used_percent,
                           reset_at |-> copilot.reset_at]),
         auth_fingerprint |-> Fingerprint,
         format_version |-> FORMAT_VERSION]

\* C13: tmux mode, cache enabled: a successful combined fetch is followed by
\* exactly one write, of a record built from that fetch alone; any other run
\* leaves the stored file as it was, and the file is never deleted
C13_ReplacedWholesale ==
    /\ [] ( /\ (Done /\ CacheEnabled /\ CombinedSuccess) =>
                 /\ Count({"save_cache"}) = 1
                 /\ tmux_record = Some(FetchedRecord)
                 /\ env.writable => cache_file = Serialize(FetchedRecord)
            /\ InLog("save_cache") => (CacheEnabled /\ CombinedSuccess) )
    /\ [][ cache_file' # cache_file =>
              /\ CacheEnabled /\ CombinedSuccess
              /\ cache_file' = Serialize(FetchedRecord)
              /\ cache_file' # FMissing ]_vars

\* a stale record was on disk, both fetches returned a second after the
\* start, and the file now holds the new record
C13_Witness ==
    /\ Done /\ CacheEnabled /\ CombinedSuccess
    /\ InLog("load_cache:record") /\ InLog("is_fresh:false")
    /\ clock > 0
    /\ Len(tasks["Codex"].res.v) = MaxCodex
    /\ cache_file = Serialize(FetchedRecord)

----------------------------------------------------------------------------
(* Properties of save_cache followed by load_cache (SpecSave) *)

SavedRecord == call.arg[1]
Reloaded == call.res[1]
WasReloaded == call.op = "save_cache" /\ call.res # None

\* the loaded record has the fields of the saved one, window by window
SameRecord(loaded, saved) ==
    /\ loaded.fetched_at = saved.fetched_at
    /\ loaded.auth_fingerprint = saved.auth_fingerprint
    /\ loaded.format_version = saved.format_version
    /\ Range(loaded.codex) = Range(saved.codex)
    /\ Len(loaded.codex) = Len(saved.codex)
    /\ loaded.copilot = saved.copilot

\* the keys of the file, at every depth
KeysOf(text) ==
    { text[i].j.s : i \in { n \in DOMAIN text :
                              /\ n < Len(text)
                              /\ text[n].c = "str"
                              /\ text[n + 1].c = ":" } }

\* the file written whole decodes to what the invocation model stores
SerializeIsDecodedSaveText ==
    pc = "saved" => Decoded(cache_file) = Serialize(SavedRecord)

\* C11: load_cache on the file save_cache wrote returns a record with the
\* same fetched_at, auth_fingerprint, format_version, codex labels and
\* per-window used_percent and reset_at; the file holds no used or limit
C11_RoundTrip ==
    (pc = "saved" /\ WasReloaded) =>
        /\ ~ Raised(Reloaded)
        /\ Reloaded.v # None
        /\ SameRecord(Reloaded.v[1], SavedRecord)
        /\ KeysOf(cache_file.text) \cap {"used", "limit"} = {}

\* a record with two codex windows put in against key order, a copilot
\* window and reset instants has been written and read back
C11_Witness ==
    /\ pc = "saved" /\ WasReloaded
    /\ Len(SavedRecord.codex) = 2
    /\ SavedRecord.codex[1][1] = "Weekly"
    /\ SavedRecord.codex[1][2].reset_at # None
    /\ SavedRecord.copilot # None
    /\ SavedRecord.fetched_at # 0

\* C12: when the process dies while the file is being written, a later
\* load_cache returns no record or the complete record, never another one
C12_NoTornRecord ==
    (pc = "crashed" /\ WasReloaded) =>
        /\ ~ Raised(Reloaded)
        /\ \/ Reloaded.v = None
           \/ SameRecord(Reloaded.v[1], SavedRecord)

\* the process died with everything but the end of the last member on disk,
\* and the file was read as holding no record
C12_Witness ==
    /\ pc = "crashed" /\ WasReloaded
    /\ Len(cache_file.text) = Len(SaveText(SavedRecord)) - 1
    /\ cache_file.text # SubSeq(SaveText(SavedRecord), 1,
                                Len(SaveText(SavedRecord)) - 1)
    /\ Reloaded = Ret(None)

----------------------------------------------------------------------------
(* Properties of the carried window (SpecPercent) *)

\* the texts of the percentages 0% .. 100%
PercentTexts == { ToString(n) \o "%" : n \in 0 .. 100 }

\* the one window of a record or of a pair of window lists
OnlyCached(record) ==
    IF record.codex # <<>> THEN record.codex[1][2] ELSE record.copilot[1]
OnlyWindow(windows) ==
    IF windows.codex_windows # <<>> THEN windows.codex_windows[1]
    ELSE windows.copilot_window[1]

\* C14: used_percent reaches the record, the file, the loaded record and the
\* windows made from it unchanged, whatever its value; what is rendered from
\* them is the clamped value, within 0% .. 100%
C14_ClampedOnlyWhenRendered ==
    /\ call.op \in {"stored", "rendered"} =>
          LET used_percent == call.arg[1].used_percent
              stages == call.res[1]
          IN  /\ OnlyCached(stages.built).used_percent = used_percent
              /\ \E i \in DOMAIN stages.file.text :
                    stages.file.text[i] = TNum(used_percent)
              /\ ~ Raised(stages.loaded) /\ stages.loaded.v # None
              /\ OnlyCached(stages.loaded.v[1]).used_percent = used_percent
              /\ OnlyWindow(stages.cached[1]).used_percent = used_percent
    /\ call.op = "rendered" =>
          LET used_percent == call.arg[1].used_percent
              shown == IF used_percent > 1000 THEN 1000
                       ELSE IF used_percent < 0 THEN 0 ELSE used_percent
              slot == CASE call.arg[1].label = "5HR" -> 2
                        [] call.arg[1].label = "Weekly" -> 3
                        [] OTHER -> 5
          IN  /\ out[1][slot].text \in PercentTexts
              /\ out[1][slot].text = ToString(RoundPercent(shown)) \o "%"
              /\ out[2] = <<ToString(RoundPercent(shown)) \o "%">>

\* 120.4 was stored as 120.4 and rendered as 100%
C14_Witness ==
    /\ call.op = "rendered"
    /\ call.arg[1].used_percent = 1204
    /\ OnlyCached(call.res[1].loaded.v[1]).used_percent = 1204
    /\ out[1][2].text = "100%"
    /\ out[2] = <<"100%">>

----------------------------------------------------------------------------
(* Properties of the Codex normalizer (SpecCodex) *)

CodexParsed == call.op = "parse_codex_usage" /\ call.res # None
CodexPayload == call.arg[1]
CodexResult == call.res[1]

\* the entries of the payload, where rate_limit holds entries
PayloadEntries ==
    IF Has(CodexPayload, "rate_limit")
       /\ Get(CodexPayload, "rate_limit").t \in {"dict", "list"}
    THEN _iter_entries(Get(CodexPayload, "rate_limit"))
    ELSE <<>>

\* every reset_at of the payload is a timestamp or is missing
ResetsReadable ==
    \A i \in DOMAIN PayloadEntries :
        Get(PayloadEntries[i], "reset_at").t \in {"absent", "null", "iso"}

IsNumber(j) == j.t \in {"num", "numstr"}

\* a numeric member, or absent where it is missing or no number
Lenient(j) == IF IsNumber(j) THEN Some(j.n) ELSE None

\* the percentage of an entry by the rule of derivation, a value that is no
\* number counting as absent
DerivedPercent(entry) ==
    LET direct == Lenient(Get(entry, "used_percent"))
        used == Lenient(Get(entry, "used"))
        limit == Lenient(Get(entry, "limit"))
    IN  IF direct # None THEN direct[1]
        ELSE IF used # None /\ limit # None /\ limit[1] # 0
        THEN (used[1] * 1000) \div limit[1]
        ELSE 0

\* C15: no value of a numeric member of an entry makes the parse fail; such
\* a value is taken as absent and every entry yields its window
C15_MalformedNumbersTolerated ==
    (CodexParsed /\ ResetsReadable /\ PayloadEntries # <<>>) =>
        /\ ~ Raised(CodexResult)
        /\ Len(CodexResult.v) = Len(PayloadEntries)
        /\ \A i \in DOMAIN PayloadEntries :
              /\ CodexResult.v[i].used = Lenient(Get(PayloadEntries[i], "used"))
              /\ CodexResult.v[i].limit =
                    Lenient(Get(PayloadEntries[i], "limit"))

\* C16: the used_percent of every window is the direct percentage if there
\* is one, else used/limit*100 if both are there and limit is not 0, else 0
C16_UsedPercentDerivation ==
    (CodexParsed /\ ResetsReadable /\ PayloadEntries # <<>>) =>
        /\ ~ Raised(CodexResult)
        /\ \A i \in DOMAIN PayloadEntries :
              CodexResult.v[i].used_percent = DerivedPercent(PayloadEntries[i])

----------------------------------------------------------------------------
(* Properties of the Copilot normalizers (SpecCopilot) *)

\* a numeric member, 0 where it is missing or no number
NumberOrZero(j) == IF IsNumber(j) THEN j.n ELSE 0

InternalParsed == call.op = "parse_copilot_internal"
Premium ==
    GetObject(GetObject(call.arg[1], "quota_snapshots"),
              "premium_interactions")
Entitlement == NumberOrZero(Get(Premium, "entitlement"))
Remaining == NumberOrZero(Get(Premium, "remaining"))
Unlimited == Get(Premium, "unlimited") = JBool(TRUE)

\* the reset date the payload names: quota_reset_date, else the _utc one
NamedReset ==
    LET date == Get(call.arg[1], "quota_reset_date")
        date_utc == Get(call.arg[1], "quota_reset_date_utc")
    IN  IF date.t \in {"iso", "text"} /\ date # JText("") THEN date
        ELSE date_utc
ResetReadable == NamedReset.t \in {"absent", "null", "iso"}

\* C17: unlimited or entitlement <= 0 gives 0% without counts; otherwise
\* used = max(entitlement - remaining, 0), limit = entitlement,
\* used_percent = used / entitlement * 100, within 0..100 when remaining is
\* not negative; reset_at is quota_reset_date, else quota_reset_date_utc
C17_InternalQuota ==
    (InternalParsed /\ ResetReadable) =>
        LET result == call.res[1]
            window == result.v
        IN  /\ ~ Raised(result)
            /\ window.label = "Requests"
            /\ window.reset_at = IF NamedReset.t = "iso"
                                 THEN Some(NamedReset.at) ELSE None
            /\ IF Unlimited \/ Entitlement <= 0
               THEN /\ window.used_percent = 0
                    /\ window.used = None
                    /\ window.limit = None
               ELSE /\ window.used =
                          Some(IF Entitlement - Remaining > 0
                               THEN Entitlement - Remaining ELSE 0)
                    /\ window.limit = Some(Entitlement)
                    /\ window.used_percent =
                          (window.used[1] * 1000) \div Entitlement
                    /\ Remaining >= 0 =>
                          (window.used_percent >= 0
                           /\ window.used_percent <= 1000)

\* entitlement 50 and remaining 20 gave used 30, limit 50 and 60.0 percent,
\* the reset taken from quota_reset_date_utc
C17_Witness ==
    /\ InternalParsed
    /\ Entitlement = 50 /\ Remaining = 20 /\ ~ Unlimited
    /\ Get(call.arg[1], "quota_reset_date") = JText("")
    /\ call.res[1] =
          Ret(UsageWindowOf("Requests", 600, Some(9), Some(30), Some(50)))

BillingItems ==
    LET usage_items == Get(call.arg[1].payload, "usageItems")
    IN  IF usage_items.t = "list" THEN usage_items.items ELSE <<>>

\* the sum of the quantities of the items of product "Copilot"
RECURSIVE CopilotQuantity(_)
CopilotQuantity(items) ==
    IF items = <<>> THEN 0
    ELSE (IF Get(Head(items), "product") = JText("Copilot")
          THEN NumberOrZero(Get(Head(items), "grossQuantity")) ELSE 0)
         + CopilotQuantity(Tail(items))

\* the window built from a count, for the month after today
MonthlyWindowIs(window, used, today) ==
    /\ window.used_percent = (used * 1000) \div 300
    /\ window.used = Some(used)
    /\ window.reset_at =
          Some([year |-> IF today.month = 12 THEN today.year + 1
                         ELSE today.year,
                month |-> IF today.month = 12 THEN 1 ELSE today.month + 1,
                day |-> 1, hour |-> 0, minute |-> 0, second |-> 0,
                tz |-> "UTC"])

\* C18 as stated: for every list of usage items the count is the sum over
\* the items of product "Copilot", and the window is count/300*100 with the
\* reset at the start of the next month
C18_BillingSumEveryList ==
    (call.op = "build_copilot_window"
     /\ Get(call.arg[1].payload, "usageItems").t = "list") =>
        /\ call.res[1].used = CopilotQuantity(BillingItems)
        /\ MonthlyWindowIs(call.res[1].window[1], call.res[1].used,
                           call.arg[1].today)

\* C18: for every list of usage items that is not empty the count is the
\* sum over the items of product "Copilot"; for an empty or missing list it
\* is the grossQuantity of the payload itself (0 without one); the window is
\* count/300*100 with the reset at the start of the next month
C18_BillingSum ==
    call.op = "build_copilot_window" =>
        /\ call.res[1].used =
              IF BillingItems # <<>> THEN CopilotQuantity(BillingItems)
              ELSE NumberOrZero(Get(call.arg[1].payload, "grossQuantity"))
        /\ MonthlyWindowIs(call.res[1].window[1], call.res[1].used,
                           call.arg[1].today)

\* 120 and 30 of Copilot and 120 of Codespaces, read on a day of December:
\* 150, 50.0 percent, reset on 1 January of the next year
C18_Witness ==
    /\ call.op = "build_copilot_window"
    /\ Len(BillingItems) = 3
    /\ Get(BillingItems[3], "product") = JText("Codespaces")
    /\ Get(BillingItems[3], "grossQuantity") = JNum(120)
    /\ call.arg[1].today.month = 12
    /\ call.res[1].used = 150
    /\ call.res[1].window[1].used_percent = 500
    /\ call.res[1].window[1].reset_at[1].year = call.arg[1].today.year + 1
    /\ call.res[1].window[1].reset_at[1].month = 1

----------------------------------------------------------------------------
(* Properties of _fetch_usage (Spec) *)

Polling == ShowProgress /\ env.is_terminal
FetchEnded == InLog("fetch_end")
FetchReturned == FetchEnded /\ fetch.exc = ""

\* the failure entries of the tasks that raised a caught error, in the order
\* of the names given
RECURSIVE FailuresOf(_)
FailuresOf(names) ==
    IF names = <<>> THEN <<>>
    ELSE (IF tasks[Head(names)].res.exc \in {"HTTPError", "RuntimeError"}
          THEN <<[name |-> Head(names), exc |-> tasks[Head(names)].res.exc]>>
          ELSE <<>>)
         \o FailuresOf(Tail(names))

\* C19: both fetches are started together, _fetch_usage ends only when both
\* tasks have finished, in the polling and in the blocking branch alike, and
\* what it returns is each task's own outcome whichever task finished first:
\* the windows of the task that returned, one failure for each that failed
C19_WaitsForBothTasks ==
    /\ InLog("fetch_start") =>
          \A n \in Range(Names) : tasks[n].st \in {"running", "done"}
    /\ FetchEnded => \A n \in Range(Names) : tasks[n].st = "done"
    /\ FetchReturned =>
          /\ fetch.codex_windows =
                IF Returned("Codex") THEN tasks["Codex"].res.v ELSE <<>>
          /\ fetch.copilot_window =
                IF Returned("GitHub Copilot")
                THEN tasks["GitHub Copilot"].res.v ELSE None
          /\ Range(fetch.failures) = Range(FailuresOf(Names))
          /\ Len(fetch.failures) = Len(FailuresOf(Names))
          /\ ~ Polling => fetch.failures = FailuresOf(Names)

\* the polling branch returned after Copilot's failure was handled before
\* Codex's
C19_Witness ==
    /\ FetchReturned
    /\ Polling
    /\ fetch.failures = <<[name |-> "GitHub Copilot", exc |-> "RuntimeError"],
                          [name |-> "Codex", exc |-> "HTTPError"]>>

\* the blocking branch returned Codex's windows next to Copilot's failure
C19_WitnessBlocking ==
    /\ FetchReturned
    /\ ~ Polling
    /\ fetch.codex_windows = LiveCodex(MaxCodex)
    /\ fetch.failures = <<[name |-> "GitHub Copilot", exc |-> "HTTPError"]>>

----------------------------------------------------------------------------
(* Properties of the status served from a cached result (SpecStatus) *)

Served == call.op = "served"
LiveWindows == call.arg[1].codex_windows

\* C20: the status line served from the record of a cached live result while
\* the record is fresh is the status line the run that wrote it printed, for
\* every list of Codex windows
C20_ServedStatusIsLiveStatus ==
    Served => call.res[1] = out[1]

\* no two live windows have the same label once stripped and lowered
NoRepeatedLabel ==
    \A i, j \in DOMAIN LiveWindows :
        i # j => StripLower(LiveWindows[i].label)
                 # StripLower(LiveWindows[j].label)

\* the record keeps something: a Copilot window, or a 5HR or Weekly one
SomethingKept ==
    \/ call.arg[1].copilot_window # None
    \/ \E i \in DOMAIN LiveWindows :
          _normalize_codex_label(LiveWindows[i].label) # None

\* the served status is the live one where no label repeats and the record
\* keeps at least one window
ServedStatusOfPlainLabels ==
    (Served /\ NoRepeatedLabel /\ SomethingKept) => call.res[1] = out[1]

----------------------------------------------------------------------------
(* Properties of the cache flags (Spec) *)

CacheUnused == env.mode = "plain" \/ env.disabled
ForcedRefresh == env.mode = "tmux" /\ ~ env.disabled /\ env.refresh

\* the calls of load_cache in the log, by their place
Loads == { i \in DOMAIN log : log[i] \in LoadEvents }

\* C21: a tmux run with the cache disabled, and every plain run, neither
\* reads nor writes the cache file, whatever the fetches end with and
\* whatever the refresh flag; a tmux run with refresh set and the cache
\* enabled reads the cache only after the live fetch has been started
C21_CacheFlagsRespected ==
    /\ [](CacheUnused => (Loads = {} /\ ~ InLog("save_cache")))
    /\ [][CacheUnused => cache_file' = cache_file]_vars
    /\ [](ForcedRefresh =>
            \A i \in Loads : \E j \in 1 .. (i - 1) : log[j] = "fetch_start")

\* a tmux run with the cache disabled ended with 1 after both fetches failed,
\* a readable record of the same credentials lying in the file untouched
C21_Witness ==
    /\ env.mode = "tmux" /\ env.disabled
    /\ pc = "done"
    /\ InLog("fetch_end")
    /\ \A n \in Range(Names) : tasks[n].res.exc = "HTTPError"
    /\ exit = Some([code |-> 1, exc |-> ""])
    /\ ~ Raised(load_cache(cache_file))
    /\ load_cache(cache_file).v # None
    /\ load_cache(cache_file).v[1].auth_fingerprint = Fingerprint
    /\ is_fresh(load_cache(cache_file).v[1], env.ttl_seconds, Fingerprint,
                clock)
    /\ Loads = {}

\* a run with refresh set fell back on the record after its fetches failed
C21_WitnessRefresh ==
    /\ ForcedRefresh
    /\ pc = "done"
    /\ Loads # {}
    /\ InLog("write_cached")

\* a plain run ended with the cache file as it was
C21_WitnessPlain ==
    /\ env.mode = "plain" /\ ~ env.disabled /\ env.writable
    /\ pc = "done"
    /\ exit = Some([code |-> 0, exc |-> ""])
    /\ fetch.failures = <<>>
    /\ Loads = {}

====
